---- MODULE Spec2Model ----
(***************************************************************************)
(* Fortress-System: the check orchestrator (core/runner.js), the command   *)
(* validator (core/command-validator.js), the check implementations        *)
(* (checks/*.js), the scorer (core/scorer.js) and the report command        *)
(* (cli/commands/report.js).                                               *)
(*                                                                         *)
(* Text is modelled as a sequence of characters (one-character strings;    *)
(* the backtick is written "BACKTICK").  A JavaScript value that may be a  *)
(* string, null, undefined or a number is a record [t, s, n].              *)
(***************************************************************************)
EXTENDS Integers, Sequences, FiniteSets, TLC

VARIABLES
    config,       \* the Configuration object handed to runner.run / scorer.calculate
    pc,           \* position of the command: "run", "score", "report", "done";
                  \* "raised" when an exception has left runner.run
    idx,          \* position of runner.run's for-loop in Object.entries(config.checks)
    results,      \* runner.run's `results` array
    validatorLog, \* calls of validateCommand in this run: [at, command, valid], in order
    shellLog,     \* commands handed to the shell by execSync: [at, command], in order
    invoked,      \* loop positions whose check implementation (mod.run) was called
    scoreResult,  \* the object returned by scorer.calculate
    exitCode,     \* process.exit code of the report command (-1: not exited)
    saved,        \* number of snapshot files written by reporter.saveReport
    deploy,       \* the deploy command: its stage and the exit codes it has seen (deploy specification)
    heap,         \* the objects of the quick command, by address (quick specification)
    vInput,       \* the argument of the function a specification is about
    vOutput       \* the value that function returns

vars == <<config, pc, idx, results, validatorLog, shellLog, invoked,
          scoreResult, exitCode, saved, deploy, heap, vInput, vOutput>>

(***************************************************************************)
(* JavaScript values                                                       *)
(***************************************************************************)
Str(s) == [t |-> "str", s |-> s, n |-> 0]
Null == [t |-> "null", s |-> <<>>, n |-> 0]
Undefined == [t |-> "undef", s |-> <<>>, n |-> 0]
Num(n) == [t |-> "num", s |-> <<>>, n |-> n]

\* ToBoolean: null, undefined, "" and 0 are falsy
Truthy(v) ==
    CASE v.t = "str" -> Len(v.s) > 0
      [] v.t = "num" -> v.n # 0
      [] OTHER -> FALSE

Range(s) == {s[i] : i \in 1..Len(s)}

\* all sequences over S of length at most n
RECURSIVE SeqsUpTo(_, _)
SeqsUpTo(S, n) ==
    IF n = 0 THEN {<<>>}
    ELSE LET shorter == SeqsUpTo(S, n - 1)
         IN  shorter \cup {Append(s, c) : s \in shorter, c \in S}

(***************************************************************************)
(* String and RegExp primitives used by the validator                      *)
(***************************************************************************)
\* characters String.prototype.trim removes and \s matches
WhiteSpace == {" ", "\n", "\t", "\r"}

\* \w of a RegExp: the characters between which \b finds no boundary
WordChars == {"a", "b", "c", "d", "e", "f", "g", "h", "i", "j", "k", "l", "m",
              "n", "o", "p", "q", "r", "s", "t", "u", "v", "w", "x", "y", "z",
              "A", "B", "C", "D", "E", "F", "G", "H", "I", "J", "K", "L", "M",
              "N", "O", "P", "Q", "R", "S", "T", "U", "V", "W", "X", "Y", "Z",
              "0", "1", "2", "3", "4", "5", "6", "7", "8", "9", "_"}

RECURSIVE TrimStart(_)
TrimStart(s) ==
    IF Len(s) > 0 /\ Head(s) \in WhiteSpace THEN TrimStart(Tail(s)) ELSE s

RECURSIVE TrimEnd(_)
TrimEnd(s) ==
    IF Len(s) > 0 /\ s[Len(s)] \in WhiteSpace
    THEN TrimEnd(SubSeq(s, 1, Len(s) - 1))
    ELSE s

Trim(s) == TrimEnd(TrimStart(s))

\* the literal p occurs in s at position i
OccursAt(s, p, i) ==
    /\ i >= 1
    /\ i + Len(p) - 1 <= Len(s)
    /\ SubSeq(s, i, i + Len(p) - 1) = p

\* RegExp of a plain literal: p occurs somewhere in s
Contains(s, p) == \E i \in 1..Len(s) : OccursAt(s, p, i)

StartsWith(s, p) == OccursAt(s, p, 1)

\* faulty variant: the word boundaries are dropped
MatchesWholeWordNoBoundary(s, w) == Contains(s, w)

\* /\bword\b/ : the literal with a word boundary on both sides
MatchesWholeWord(s, w) ==
    \E i \in 1..Len(s) :
        /\ OccursAt(s, w, i)
        /\ (i = 1 \/ s[i - 1] \notin WordChars)
        /\ (i + Len(w) > Len(s) \/ s[i + Len(w)] \notin WordChars)

\* /\|(?!\|)/ : a pipe that is not followed by another pipe
MatchesPipeNotFollowedByPipe(s) ==
    \E i \in 1..Len(s) :
        /\ s[i] = "|"
        /\ (i = Len(s) \/ s[i + 1] # "|")

(***************************************************************************)
(* core/command-validator.js                                               *)
(***************************************************************************)
\* DANGEROUS_PATTERNS, in array order; `source` is pattern.source
DANGEROUS_PATTERNS == <<
    [source |-> ";\\s*",        kind |-> "lit",  lit |-> <<";">>],
    [source |-> "&&",           kind |-> "lit",  lit |-> <<"&", "&">>],
    [source |-> "\\|\\|",       kind |-> "lit",  lit |-> <<"|", "|">>],
    [source |-> "\\|(?!\\|)",   kind |-> "pipe", lit |-> <<>>],
    [source |-> "\\$\\(",       kind |-> "lit",  lit |-> <<"$", "(">>],
    [source |-> "BACKTICK",     kind |-> "lit",  lit |-> <<"BACKTICK">>],
    [source |-> ">\\s*",        kind |-> "lit",  lit |-> <<">">>],
    [source |-> "<\\s*",        kind |-> "lit",  lit |-> <<"<">>],
    [source |-> "\\$\\{",       kind |-> "lit",  lit |-> <<"$", "{">>],
    [source |-> "\\beval\\b",   kind |-> "word", lit |-> <<"e", "v", "a", "l">>],
    [source |-> "\\bsource\\b", kind |-> "word", lit |-> <<"s", "o", "u", "r", "c", "e">>],
    [source |-> "\\bexec\\b",   kind |-> "word", lit |-> <<"e", "x", "e", "c">>] >>

\* pattern.test(trimmed); a trailing \s* matches the empty string, so /;\s*/
\* matches exactly when the literal occurs
PatternTest(p, s) ==
    CASE p.kind = "lit"  -> Contains(s, p.lit)
      [] p.kind = "pipe" -> MatchesPipeNotFollowedByPipe(s)
      [] p.kind = "word" -> MatchesWholeWord(s, p.lit)

SAFE_PREFIXES == {
    <<"n", "p", "x", " ">>, <<"n", "p", "m", " ">>, <<"y", "a", "r", "n", " ">>,
    <<"p", "n", "p", "m", " ">>, <<"b", "u", "n", " ">>, <<"n", "o", "d", "e", " ">>,
    <<"t", "s", "c", " ">>, <<"e", "s", "l", "i", "n", "t", " ">>,
    <<"b", "i", "o", "m", "e", " ">>, <<"v", "i", "t", "e", "s", "t", " ">>,
    <<"j", "e", "s", "t", " ">>, <<"m", "o", "c", "h", "a", " ">> }

\* the return values; `reason` is the reason string, `pattern` the
\* pattern.source interpolated into it
Invalid(reason, pattern) ==
    [valid |-> FALSE, reason |-> reason, pattern |-> pattern]
Valid(knownSafe) == [valid |-> TRUE, knownSafe |-> knownSafe]

\* index of the first pattern of DANGEROUS_PATTERNS that matches, 0 if none
FirstDangerous(trimmed) ==
    LET hits == {i \in 1..Len(DANGEROUS_PATTERNS) :
                    PatternTest(DANGEROUS_PATTERNS[i], trimmed)}
    IN  IF hits = {} THEN 0
        ELSE CHOOSE i \in hits : \A j \in hits : i <= j

validateCommand(command) ==
    IF ~Truthy(command) \/ command.t # "str"
    THEN Invalid("Command is empty or not a string", "")
    ELSE LET trimmed == Trim(command.s)
             hit == FirstDangerous(trimmed)
         IN  IF Len(trimmed) = 0 THEN Invalid("Command is empty", "")
             ELSE IF hit # 0
             THEN Invalid("Command contains a disallowed shell operator",
                          DANGEROUS_PATTERNS[hit].source)
             ELSE Valid(\E prefix \in SAFE_PREFIXES : StartsWith(trimmed, prefix))

(***************************************************************************)
(* checks/base-check.js                                                    *)
(***************************************************************************)
\* One entry of an errors / warnings list: the template text, the check
\* name interpolated into it, an interpolated JavaScript value and an
\* interpolated number.
Msg(text, name, arg, n) == [text |-> text, name |-> name, arg |-> arg, n |-> n]

\* String.prototype.toLowerCase on the names that occur
toLowerCase(name) ==
    CASE name = "TypeScript" -> "typescript"
      [] name = "Lint" -> "lint"
      [] name = "myCheck" -> "mycheck"
      [] name = "toString" -> "tostring"
      [] OTHER -> name

\* createResult(name, {key, passed, errors, warnings, duration, score});
\* key = "" stands for an absent key.  Wall-clock durations are not
\* modelled: every duration is 0.
createResult(name, key, passed, errors, warnings, score) ==
    [name |-> name,
     key |-> IF key # "" THEN key ELSE toLowerCase(name),
     passed |-> passed,
     errors |-> errors,
     warnings |-> warnings,
     duration |-> 0,
     score |-> score]

(***************************************************************************)
(* External tools.  What execSync yields: whether the process exited with  *)
(* code 0 (otherwise execSync throws) and the captured stdout + stderr as  *)
(* a sequence of lines.  A line is [kind, failed, passed, total]: its kind *)
(* fixes which of the checks' regular expressions match it, the numbers    *)
(* are the decimal numbers printed in it.                                  *)
(***************************************************************************)
Line(kind, failed, passed, total) ==
    [kind |-> kind, failed |-> failed, passed |-> passed, total |-> total]

\* execSync hands `command` to the shell only when it is a non-empty
\* string; for undefined and "" it throws before any process is spawned
Spawns(command) == command.t = "str" /\ Len(command.s) > 0

SpawnError == [clean |-> FALSE, lines |-> <<>>]

\* the lines whose kind is in `kinds`, in order
RECURSIVE SelectLines(_, _)
SelectLines(lines, kinds) ==
    IF lines = <<>> THEN <<>>
    ELSE IF Head(lines).kind \in kinds
         THEN <<Head(lines)>> \o SelectLines(Tail(lines), kinds)
         ELSE SelectLines(Tail(lines), kinds)

\* Array.prototype.slice(0, n)
Slice(s, n) == SubSeq(s, 1, IF Len(s) < n THEN Len(s) ELSE n)

\* line kinds matching /not found|ENOENT|could not determine executable/i
NotFoundKinds == {"notFound"}
\* line kinds containing 'error TS'
TsErrorKinds == {"tsError"}
\* line kinds matching /error/i and not starting with the summary cross
LintErrorKinds == {"tsError", "lintError", "buildError"}
\* line kinds matching /error|failed|Error:|FATAL/i and not /warn/i
BuildErrorKinds == {"tsError", "lintError", "buildError"}

HasKind(lines, kinds) == \E i \in 1..Len(lines) : lines[i].kind \in kinds

\* one error entry per selected output line (line.trim())
LineMsgs(lines) == [i \in 1..Len(lines) |-> Msg("<output line>", lines[i].kind, Undefined, lines[i].total)]

(***************************************************************************)
(* checks/typescript-check.js                                              *)
(***************************************************************************)
TsMaxLines == 20
TsDefaultCommand == Str(<<"n", "p", "x", " ", "t", "s", "c", " ", "-", "-",
                          "n", "o", "E", "m", "i", "t">>)

TypeScriptCommand(checkConfig) ==
    IF Truthy(checkConfig.command) THEN checkConfig.command ELSE TsDefaultCommand

TypeScriptRun(checkConfig, out) ==
    LET command == TypeScriptCommand(checkConfig)
        lines == SelectLines(out.lines, TsErrorKinds)
        listed == LineMsgs(Slice(lines, TsMaxLines))
                  \o (IF Len(lines) > TsMaxLines
                      THEN <<Msg("... and N more errors", "", Undefined, Len(lines) - TsMaxLines)>>
                      ELSE <<>>)
        errors ==
            IF out.clean THEN <<>>
            ELSE IF Len(listed) > 0 THEN listed
            ELSE <<Msg("TypeScript compilation failed", "", Undefined, 0),
                   Msg("  Command: ${command}", "", command, 0)>>
                 \o (IF HasKind(out.lines, NotFoundKinds)
                     THEN <<Msg("  Hint: TypeScript may not be installed", "", Undefined, 0)>>
                     ELSE <<>>)
        passed == Len(errors) = 0
    IN  createResult("TypeScript", "", passed, errors, <<>>,
                     IF passed THEN checkConfig.weight ELSE 0)

(***************************************************************************)
(* checks/lint-check.js                                                    *)
(***************************************************************************)
LintMaxErrors == 20
LintWarningCost == 5

Min(a, b) == IF a < b THEN a ELSE b
Max(a, b) == IF a > b THEN a ELSE b

\* output.match(/(\d+)\s+warnings?\)/): the count of the first summary line
LintWarningCount(lines) ==
    LET summary == SelectLines(lines, {"lintSummary"})
    IN  IF Len(summary) = 0 THEN 0 ELSE summary[1].passed

LintRun(checkConfig, out) ==
    LET command == checkConfig.command
        found == LineMsgs(SelectLines(out.lines, LintErrorKinds))
        errors ==
            IF out.clean THEN <<>>
            ELSE IF Len(found) > 0 THEN found
            ELSE <<Msg("Lint check failed", "", Undefined, 0),
                   Msg("  Command: ${command}", "", command, 0)>>
                 \o (IF HasKind(out.lines, NotFoundKinds)
                     THEN <<Msg("  Hint: The lint tool may not be installed", "", Undefined, 0)>>
                     ELSE <<>>)
        warningCount == LintWarningCount(out.lines)
        warnings == IF warningCount > 0
                    THEN <<Msg("${warningCount} lint warning(s)", "", Undefined, warningCount)>>
                    ELSE <<>>
        passed == Len(errors) = 0
        warningPenalty == Min(warningCount * LintWarningCost, checkConfig.weight)
        score == IF passed THEN checkConfig.weight - warningPenalty ELSE 0
    IN  createResult("Lint", "", passed, Slice(errors, LintMaxErrors), warnings,
                     Max(0, score))

(***************************************************************************)
(* checks/build-check.js                                                   *)
(***************************************************************************)
BuildMaxLines == 10

BuildRun(checkConfig, out) ==
    LET errorLines == SelectLines(out.lines, BuildErrorKinds)
        errors ==
            IF out.clean THEN <<>>
            ELSE IF Len(errorLines) > 0
            THEN LineMsgs(Slice(errorLines, BuildMaxLines))
                 \o (IF Len(errorLines) > BuildMaxLines
                     THEN <<Msg("... and N more errors", "", Undefined, Len(errorLines) - BuildMaxLines)>>
                     ELSE <<>>)
            ELSE <<Msg("Build failed", "", Undefined, 0)>>
        passed == Len(errors) = 0
    IN  createResult("Build", "build", passed, errors, <<>>,
                     IF passed THEN checkConfig.weight ELSE 0)

(***************************************************************************)
(* checks/test-check.js                                                    *)
(*   "jestSuites"  Test Suites: [F failed, ]P passed, T total              *)
(*   "jestTests"   Tests:       [F failed, ]P passed, T total              *)
(*   "vitestTests" Tests  [F failed | ]P passed (T)                        *)
(*   "nodePass"    # pass P          "nodeFail"   # fail F                 *)
(*   "mochaPass"   P passing         "mochaFail"  F failing                *)
(*   "tapNotOk"    not ok N - name   "jestBullet" (bullet) name            *)
(* A zero count of failures is not printed by Jest and Vitest.             *)
(***************************************************************************)
TestMaxNames == 5

\* first line of `lines` satisfying the kind set and, with needFailed /
\* needNoFailed, printing (not printing) a failed count; <<>> if none
FirstLine(lines, kinds, failedPrinted) ==
    LET hits == {i \in 1..Len(lines) :
                    /\ lines[i].kind \in kinds
                    /\ (failedPrinted = "yes" => lines[i].failed > 0)
                    /\ (failedPrinted = "no" => lines[i].failed = 0)}
    IN  IF hits = {} THEN <<>>
        ELSE <<lines[CHOOSE i \in hits : \A j \in hits : i <= j]>>

parseTestOutput(lines) ==
    LET \* /Tests:\s+(\d+)\s+passed/
        jestPass == FirstLine(lines, {"jestTests"}, "no")
        \* /(\d+)\s+failed/
        jestFail == FirstLine(lines, {"jestSuites", "jestTests", "vitestTests"}, "yes")
        \* /(\d+)\s+total/
        jestTotal == FirstLine(lines, {"jestSuites", "jestTests"}, "any")
        \* /Tests\s+(\d+)\s+passed\s+\((\d+)\)/
        vitestMatch == FirstLine(lines, {"vitestTests"}, "no")
        \* /# pass\s+(\d+)/ and /# fail\s+(\d+)/
        nodePass == FirstLine(lines, {"nodePass"}, "any")
        nodeFail == FirstLine(lines, {"nodeFail"}, "any")
        \* /(\d+)\s+passing/ and /(\d+)\s+failing/
        mochaPass == FirstLine(lines, {"mochaPass"}, "any")
        mochaFail == FirstLine(lines, {"mochaFail"}, "any")
    IN  IF jestPass # <<>> \/ jestTotal # <<>>
        THEN LET passed == IF jestPass # <<>> THEN jestPass[1].passed ELSE 0
                 failed == IF jestFail # <<>> THEN jestFail[1].failed ELSE 0
             IN  [passed |-> passed, failed |-> failed,
                  total |-> IF jestTotal # <<>> THEN jestTotal[1].total
                            ELSE passed + failed]
        ELSE IF vitestMatch # <<>>
        THEN [passed |-> vitestMatch[1].passed,
              failed |-> vitestMatch[1].total - vitestMatch[1].passed,
              total |-> vitestMatch[1].total]
        ELSE IF nodePass # <<>>
        THEN LET failed == IF nodeFail # <<>> THEN nodeFail[1].failed ELSE 0
             IN  [passed |-> nodePass[1].passed, failed |-> failed,
                  total |-> nodePass[1].passed + failed]
        ELSE IF mochaPass # <<>>
        THEN LET failed == IF mochaFail # <<>> THEN mochaFail[1].failed ELSE 0
             IN  [passed |-> mochaPass[1].passed, failed |-> failed,
                  total |-> mochaPass[1].passed + failed]
        ELSE [passed |-> 0, failed |-> 0, total |-> 0]

\* names from "not ok" lines, else from Jest's bullet lines (suite-level
\* "not ok" lines and Vitest's cross lines do not occur in the outputs drawn)
parseFailedTestNames(lines) ==
    LET tap == SelectLines(lines, {"tapNotOk"})
    IN  IF Len(tap) > 0 THEN tap ELSE SelectLines(lines, {"jestBullet"})

\* <<hint>> or <<>> for null
extractErrorHint(lines, command) ==
    LET plain == {i \in 1..Len(lines) : lines[i].kind \notin {"nodePass", "nodeFail"}}
    IN  IF HasKind(lines, NotFoundKinds)
        THEN <<Msg("  Hint: The test tool may not be installed", "", Undefined, 0)>>
        ELSE IF plain # {}
        THEN <<Msg("  <output line>",
                   lines[CHOOSE i \in plain : \A j \in plain : i <= j].kind,
                   Undefined, 0)>>
        ELSE <<>>

\* Math.round(num / den) for den > 0: the nearest integer, halves upwards
Round(num, den) == (2 * num + den) \div (2 * den)

\* faulty variant: the score is proportional to the failed tests
TestScoreByFailures(checkConfig, out) ==
    LET testCounts == parseTestOutput(out.lines)
    IN  IF testCounts.total > 0
        THEN Round(checkConfig.weight * testCounts.failed, testCounts.total)
        ELSE IF out.clean THEN checkConfig.weight ELSE 0

TestScore(checkConfig, out) ==
    LET testCounts == parseTestOutput(out.lines)
    IN  IF testCounts.total > 0
        THEN Round(checkConfig.weight * testCounts.passed, testCounts.total)
        ELSE IF out.clean THEN checkConfig.weight ELSE 0

TestRun(checkConfig, out) ==
    LET command == checkConfig.command
        testCounts == parseTestOutput(out.lines)
        names == Slice(parseFailedTestNames(out.lines), TestMaxNames)
        errors ==
            IF ~out.clean /\ testCounts.total = 0
            THEN <<Msg("Test suite failed to run", "", Undefined, 0)>>
                 \o extractErrorHint(out.lines, command)
                 \o <<Msg("  Command: ${command}", "", command, 0)>>
            ELSE IF testCounts.failed > 0
            THEN <<Msg("${failed} test(s) failed", "", Undefined, testCounts.failed)>>
                 \o [i \in 1..Len(names) |-> Msg("  FAIL: ${name}", names[i].kind, Undefined, i)]
            ELSE <<>>
        warnings ==
            IF testCounts.total > 0
            THEN <<Msg("${passed}/${total} tests passed", "",
                       Num(testCounts.passed), testCounts.total)>>
            ELSE <<>>
    IN  createResult("Tests", "test", Len(errors) = 0, errors, warnings,
                     TestScore(checkConfig, out))

(***************************************************************************)
(* checks/security-check.js                                                *)
(*   "auditJson"  the whole output is npm's JSON report; failed, passed,   *)
(*                total hold metadata.vulnerabilities' critical, high and  *)
(*                moderate                                                 *)
(*   "auditText"  C critical / H high / M moderate, each printed only when *)
(*                the count is not zero                                    *)
(***************************************************************************)
SecurityCost == 5
SecurityDefaultCommand == Str(<<"n", "p", "m", " ", "a", "u", "d", "i", "t", " ",
                                "-", "-", "p", "r", "o", "d", "u", "c", "t", "i", "o", "n">>)

SecurityCommand(checkConfig) ==
    IF Truthy(checkConfig.command) THEN checkConfig.command ELSE SecurityDefaultCommand

parseAuditOutput(lines) ==
    IF Len(lines) = 1 /\ lines[1].kind = "auditJson"
    THEN [critical |-> lines[1].failed, high |-> lines[1].passed,
          moderate |-> lines[1].total]
    ELSE LET text == SelectLines(lines, {"auditText"})
             First(S) == CHOOSE i \in S : \A j \in S : i <= j
             crit == {i \in 1..Len(text) : text[i].failed > 0}
             high == {i \in 1..Len(text) : text[i].passed > 0}
             mod == {i \in 1..Len(text) : text[i].total > 0}
         IN  [critical |-> IF crit = {} THEN 0 ELSE text[First(crit)].failed,
              high |-> IF high = {} THEN 0 ELSE text[First(high)].passed,
              moderate |-> IF mod = {} THEN 0 ELSE text[First(mod)].total]

SecurityRun(checkConfig, out) ==
    LET vulns == parseAuditOutput(out.lines)
        critical == vulns.critical
        high == vulns.high
        moderate == vulns.moderate
        errors ==
            (IF critical > 0
             THEN <<Msg("${critical} critical vulnerability(ies)", "", Undefined, critical)>>
             ELSE <<>>)
            \o (IF high > 0
                THEN <<Msg("${high} high vulnerability(ies)", "", Undefined, high)>>
                ELSE <<>>)
        warnings ==
            IF moderate > 0
            THEN <<Msg("${moderate} moderate vulnerability(ies)", "", Undefined, moderate)>>
            ELSE <<>>
        deduction == (critical + high) * SecurityCost
    IN  createResult("Security", "security", critical = 0 /\ high = 0,
                     errors, warnings, Max(0, checkConfig.weight - deduction))

(***************************************************************************)
(* checks/content-check.js and checks/secrets-check.js, as far as the      *)
(* orchestrator and the scorer see them.  A scan is summarised by the      *)
(* number of patterns left after validation, the number of patterns that   *)
(* were rejected with a warning, and the number of matches that are not    *)
(* allowlisted.                                                            *)
(***************************************************************************)
ScanMaxErrors == 30

Scan(patterns, rejected, violations) ==
    [patterns |-> patterns, rejected |-> rejected, violations |-> violations]

ScanResult(name, key, overflowText, checkConfig, scan) ==
    LET errors == [i \in 1..scan.violations |-> Msg("<violation>", "", Undefined, i)]
        rejected == [i \in 1..scan.rejected |-> Msg("Pattern skipped", "", Undefined, i)]
        passed == Len(errors) = 0
    IN  createResult(name, key, passed, Slice(errors, ScanMaxErrors),
                     IF Len(errors) > ScanMaxErrors
                     THEN <<Msg(overflowText, "", Undefined, Len(errors) - ScanMaxErrors)>>
                     ELSE rejected,
                     IF passed THEN checkConfig.weight ELSE 0)

ContentRun(checkConfig, scan) ==
    IF scan.patterns = 0
    THEN createResult("Content Guard", "content", TRUE, <<>>,
                      IF scan.rejected = 0
                      THEN <<Msg("No forbidden patterns configured - content check skipped",
                                 "", Undefined, 0)>>
                      ELSE [i \in 1..scan.rejected |-> Msg("Pattern skipped", "", Undefined, i)],
                      checkConfig.weight)
    ELSE ScanResult("Content Guard", "content", "... and N more violations",
                    checkConfig, scan)

SecretsRun(checkConfig, scan) ==
    ScanResult("Secrets Detection", "secrets", "... and N more secrets found",
               checkConfig, scan)

(***************************************************************************)
(* checks/content-check.js and checks/secrets-check.js in detail: the      *)
(* vetting of checkConfig.patterns, the allowlist and the walk over the    *)
(* collected files.  An entry of checkConfig.patterns is a JavaScript      *)
(* value or an object {regex, label}; a collected file is                  *)
(* [relative, lock, readable, matches], where matches[source] is the       *)
(* number of non-empty matches the RegExp compiled from `source` finds in  *)
(* the file (its text is taken as one line).                               *)
(***************************************************************************)
MAX_PATTERN_LENGTH == 200

PatternObject(regex, label) == [t |-> "obj", regex |-> regex, label |-> label]
Arr(items) == [t |-> "arr", items |-> items]

\* what an uncaught exception leaves instead of a Result
Thrown == [thrown |-> TRUE]

\* /\( [^)]* ... [^)]* \) [+*{]/ : a group opened at i and closed at j, with
\* no ")" between, that is followed by a quantifier
QuantifiedGroup(s, i, j) ==
    /\ s[i] = "("
    /\ s[j] = ")"
    /\ \A m \in (i + 1)..(j - 1) : s[m] # ")"
    /\ j < Len(s)
    /\ s[j + 1] \in {"+", "*", "{"}

isReDoSRisk(s) ==
    \* /(\([^)]*[+*][^)]*\))[+*{]/
    \/ \E i, j, k \in 1..Len(s) :
           i < k /\ k < j /\ QuantifiedGroup(s, i, j) /\ s[k] \in {"+", "*"}
    \* /\([^)]*\|[^)]*\)[+*{]/
    \/ \E i, j, k \in 1..Len(s) :
           i < k /\ k < j /\ QuantifiedGroup(s, i, j) /\ s[k] = "|"
    \* /\([^)]*[+*}][^)]*\)[+*{]/
    \/ \E i, j, k \in 1..Len(s) :
           i < k /\ k < j /\ QuantifiedGroup(s, i, j) /\ s[k] \in {"+", "*", "}"}
    \* /\\[1-9][+*{]/
    \/ \E i \in 1..(Len(s) - 2) :
           /\ s[i] = "\\"
           /\ s[i + 1] \in {"1", "2", "3", "4", "5", "6", "7", "8", "9"}
           /\ s[i + 2] \in {"+", "*", "{"}
    \* /\([^)]*\.\s*[+*][^)]*\)[+*{]/
    \/ \E i, j, k, q \in 1..Len(s) :
           /\ i < k /\ k < q /\ q < j
           /\ QuantifiedGroup(s, i, j)
           /\ s[k] = "."
           /\ \A m \in (k + 1)..(q - 1) : s[m] \in WhiteSpace
           /\ s[q] \in {"+", "*"}
    \* /\(\?[=!<][^)]*[+*][^)]*\)[+*{]/
    \/ \E i, j, k \in 1..Len(s) :
           /\ i + 2 < k /\ k < j
           /\ QuantifiedGroup(s, i, j)
           /\ s[i + 1] = "?"
           /\ s[i + 2] \in {"=", "!", "<"}
           /\ s[k] \in {"+", "*"}

\* nesting depth of the parentheses after s[1..i], or -1 once a ")" has
\* closed nothing
RECURSIVE ParenDepth(_, _)
ParenDepth(s, i) ==
    IF i = 0 THEN 0
    ELSE LET before == ParenDepth(s, i - 1)
         IN  IF before < 0 THEN -1
             ELSE IF s[i] = "(" THEN before + 1
             ELSE IF s[i] = ")" THEN before - 1
             ELSE before

\* new RegExp(source, flags) throws a SyntaxError.  Of the RegExp grammar:
\* parentheses that do not balance, and a quantifier with nothing to repeat.
RegExpSyntaxError(s) ==
    \/ ParenDepth(s, Len(s)) # 0
    \/ Len(s) > 0 /\ s[1] \in {"+", "*", "?"}

\* one element of `warnings` pushed while the patterns are vetted
PatternWarning(text, label) == [text |-> text, label |-> label]

\* the body of the try block after source and label are set
VetPattern(source, label, caught, invalidText) ==
    IF Len(source) > MAX_PATTERN_LENGTH
    THEN [kind |-> "rejected",
          warning |-> PatternWarning("Pattern ${label} exceeds 200 chars - skipped for safety",
                                     label)]
    ELSE IF isReDoSRisk(source)
    THEN [kind |-> "rejected",
          warning |-> PatternWarning("Pattern ${label} has ReDoS risk (dangerous backtracking) - skipped",
                                     label)]
    ELSE IF RegExpSyntaxError(source)
    THEN [kind |-> "invalid", warning |-> PatternWarning(invalidText, caught)]
    ELSE [kind |-> "compiled", source |-> source, label |-> label]

\* what one entry p of checkConfig.patterns comes to.  For null and
\* undefined the read p.regex throws inside the try block, and the read
\* p.label in the catch handler throws again, outside of it.
CompilePattern(p, invalidText) ==
    IF p.t \in {"null", "undef"} THEN [kind |-> "throws"]
    ELSE IF p.t = "str" THEN VetPattern(p.s, p, p, invalidText)
    ELSE IF p.t = "obj" /\ Truthy(p.regex) /\ Truthy(p.label)
    THEN VetPattern(p.regex.s, p.label, p.label, invalidText)
    ELSE [kind |-> "dropped"]

CompileAll(patterns, invalidText) ==
    [i \in 1..Len(patterns) |-> CompilePattern(patterns[i], invalidText)]

\* the outcomes of kind `kind`, in order
RECURSIVE OfKind(_, _)
OfKind(outcomes, kinds) ==
    IF outcomes = <<>> THEN <<>>
    ELSE IF Head(outcomes).kind \in kinds
         THEN <<Head(outcomes)>> \o OfKind(Tail(outcomes), kinds)
         ELSE OfKind(Tail(outcomes), kinds)

\* the warnings pushed while vetting, in order
VettingWarnings(outcomes) ==
    LET warned == OfKind(outcomes, {"rejected", "invalid"})
    IN  [i \in 1..Len(warned) |-> warned[i].warning]

\* the compiled patterns {regex, label}, in order
CompiledPatterns(outcomes) ==
    LET compiled == OfKind(outcomes, {"compiled"})
    IN  [i \in 1..Len(compiled) |-> [source |-> compiled[i].source, label |-> compiled[i].label]]

\* String.prototype.includes
Includes(s, p) == p = <<>> \/ Contains(s, p)

\* String.prototype.toLowerCase on the letters that occur
LowerChar(c) ==
    CASE c = "A" -> "a" [] c = "D" -> "d" [] c = "I" -> "i" [] c = "K" -> "k"
      [] c = "O" -> "o" [] c = "P" -> "p" [] c = "T" -> "t"
      [] OTHER -> c

LowerCase(s) == [i \in 1..Len(s) |-> LowerChar(s[i])]

\* faulty variant: the wildcard value is not honoured
RECURSIVE isAllowlistedByTermOnly(_, _, _)
isAllowlistedByTermOnly(relativePath, term, allowlist) ==
    IF allowlist = <<>> THEN "no"
    ELSE LET pattern == Head(allowlist).key
             allowed == Head(allowlist).allowed
             rest == isAllowlistedByTermOnly(relativePath, term, Tail(allowlist))
         IN  IF ~Includes(relativePath, pattern) THEN rest
             ELSE IF allowed.t = "arr" /\ Len(allowed.items) > 0
             THEN IF term.t # "str" THEN "throws"
                  ELSE IF \E i \in 1..Len(allowed.items) :
                              Includes(LowerCase(term.s), LowerCase(allowed.items[i].s))
                       THEN "yes"
                       ELSE rest
             ELSE rest

\* isAllowlisted(relativePath, term, allowlist) over Object.entries(allowlist):
\* "yes", "no", or "throws" when term.toLowerCase is read from a term that is
\* not a string
RECURSIVE isAllowlisted(_, _, _)
isAllowlisted(relativePath, term, allowlist) ==
    IF allowlist = <<>> THEN "no"
    ELSE LET pattern == Head(allowlist).key
             allowed == Head(allowlist).allowed
             rest == isAllowlisted(relativePath, term, Tail(allowlist))
         IN  IF ~Includes(relativePath, pattern) THEN rest
             ELSE IF allowed = Str(<<"*">>) THEN "yes"
             ELSE IF allowed.t = "arr" /\ Len(allowed.items) > 0
             THEN IF term.t # "str" THEN "throws"
                  ELSE IF \E i \in 1..Len(allowed.items) :
                              Includes(LowerCase(term.s), LowerCase(allowed.items[i].s))
                       THEN "yes"
                       ELSE rest
             ELSE rest

\* number of non-empty matches of the RegExp of `source` in the file
Matches(file, source) ==
    IF source \in DOMAIN file.matches THEN file.matches[source] ELSE 0

\* one element of `errors` pushed by a scan
ScanError(text, relative, label, n) ==
    [text |-> text, file |-> relative, label |-> label, n |-> n]

RECURSIVE Flatten(_)
Flatten(ss) == IF ss = <<>> THEN <<>> ELSE Head(ss) \o Flatten(Tail(ss))

\* the files whose text is matched: readable and, in the secret scan, not
\* a lock file
Scanned(file, skipLock) == file.readable /\ ~(skipLock /\ file.lock)

\* the while loop over the matches of one pattern in one file
PatternErrors(file, pattern, allowlist, text) ==
    IF Matches(file, pattern.source) = 0
       \/ isAllowlisted(file.relative, pattern.label, allowlist) = "yes"
    THEN <<>>
    ELSE [k \in 1..Matches(file, pattern.source) |->
              ScanError(text, file.relative, pattern.label, k)]

\* for (const filePath of files) { ... }
ScanErrors(files, patterns, allowlist, text, skipLock) ==
    Flatten([f \in 1..Len(files) |->
        IF Scanned(files[f], skipLock)
        THEN Flatten([p \in 1..Len(patterns) |->
                         PatternErrors(files[f], patterns[p], allowlist, text)])
        ELSE <<>>])

\* isAllowlisted throws for some match the loop comes to
ScanThrows(files, patterns, allowlist, skipLock) ==
    \E f \in 1..Len(files), p \in 1..Len(patterns) :
        /\ Scanned(files[f], skipLock)
        /\ Matches(files[f], patterns[p].source) > 0
        /\ isAllowlisted(files[f].relative, patterns[p].label, allowlist) = "throws"

\* faulty variant: the errors are not capped
ScanFinishUncapped(name, key, overflowText, checkConfig, errors, warnings) ==
    createResult(name, key, Len(errors) = 0, errors,
                 IF Len(errors) > ScanMaxErrors
                 THEN <<Msg(overflowText, "", Undefined, Len(errors) - ScanMaxErrors)>>
                 ELSE warnings,
                 IF Len(errors) = 0 THEN checkConfig.weight ELSE 0)

\* the Result both scans return after the loop
ScanFinish(name, key, overflowText, checkConfig, errors, warnings) ==
    createResult(name, key, Len(errors) = 0, Slice(errors, ScanMaxErrors),
                 IF Len(errors) > ScanMaxErrors
                 THEN <<Msg(overflowText, "", Undefined, Len(errors) - ScanMaxErrors)>>
                 ELSE warnings,
                 IF Len(errors) = 0 THEN checkConfig.weight ELSE 0)

\* content-check.js run(config, checkConfig), `files` being what
\* collectFiles returns
ContentScan(checkConfig, files) ==
    LET outcomes == CompileAll(checkConfig.patterns, "Invalid regex pattern ${p.label || p}")
        warnings == VettingWarnings(outcomes)
        patterns == CompiledPatterns(outcomes)
        text == "${relative}:${line}:${column} - ${label} (matched: ${match})"
    IN  IF \E i \in 1..Len(outcomes) : outcomes[i].kind = "throws" THEN Thrown
        ELSE IF Len(patterns) = 0
        THEN createResult("Content Guard", "content", TRUE, <<>>,
                          IF Len(warnings) = 0
                          THEN <<Msg("No forbidden patterns configured - content check skipped",
                                     "", Undefined, 0)>>
                          ELSE warnings,
                          checkConfig.weight)
        ELSE IF ScanThrows(files, patterns, checkConfig.allowlist, FALSE) THEN Thrown
        ELSE ScanFinish("Content Guard", "content", "... and N more violations", checkConfig,
                        ScanErrors(files, patterns, checkConfig.allowlist, text, FALSE),
                        warnings)

\* the built-in secret patterns, by one of them
BUILT_IN_PATTERNS ==
    <<[source |-> <<"A", "K", "I", "A">>, label |-> Str(<<"A", "W", "S">>)]>>

\* secrets-check.js run(config, checkConfig)
SecretsScan(checkConfig, files) ==
    LET outcomes == CompileAll(checkConfig.patterns, "Invalid custom pattern ${p.label || p}")
        warnings == VettingWarnings(outcomes)
        patterns == BUILT_IN_PATTERNS \o CompiledPatterns(outcomes)
        text == "${relative}:${line} - ${label} (matched: ${masked})"
    IN  IF \E i \in 1..Len(outcomes) : outcomes[i].kind = "throws" THEN Thrown
        ELSE IF ScanThrows(files, patterns, checkConfig.allowlist, TRUE) THEN Thrown
        ELSE ScanFinish("Secrets Detection", "secrets", "... and N more secrets found",
                        checkConfig,
                        ScanErrors(files, patterns, checkConfig.allowlist, text, TRUE),
                        warnings)

(***************************************************************************)
(* Bounds of the model and the inputs drawn within them                    *)
(***************************************************************************)
MaxChecks == 2      \* entries of config.checks
MaxTests == 2       \* tests (and suites) a test runner reports per outcome
MaxVulns == 2       \* vulnerabilities per severity an audit reports
MaxWarnings == 3    \* warnings a linter reports
MaxCmdLen == 2      \* length of the exhaustively enumerated commands
MaxPatterns == 2    \* entries of checkConfig.patterns
MaxFiles == 2       \* files collectFiles returns
MaxTally == 7       \* passed tests, and failed tests, of the outcomes compared in pairs
MaxSecretLen == 10  \* length of the exhaustively enumerated matched secrets

\* the keys of CHECK_MODULES, and a user-added key that has no module
KnownNames == {"typescript", "lint", "test", "content", "secrets", "security", "build"}
CommandLess == {"content", "secrets"}
\* a key that names a property every object inherits from Object.prototype
InheritedNames == {"toString"}
CheckNames == KnownNames \cup {"myCheck"} \cup InheritedNames

\* weights set by mergeWithDefaults (core/config-loader.js); a user-added
\* check is given 10 here
DefaultWeight(name) ==
    CASE name = "typescript" -> 20
      [] name = "lint" -> 15
      [] name = "test" -> 25
      [] name = "content" -> 20
      [] OTHER -> 10

CmdValid == Str(<<"n", "p", "x", " ", "a">>)
CmdChained == Str(<<"a", ";", "b">>)
CmdTwoLines == Str(<<"a", "\n", "b">>)
CmdEmpty == Str(<<>>)

\* the command fields a configuration carries
ConfigCommands == {Null, Undefined, CmdEmpty, CmdValid, CmdChained, CmdTwoLines}

\* the entries a configuration may hold for a key: an enabled or disabled
\* check with its default weight and any command, or with weight 0
ConfigEntries ==
    {[name |-> n, enabled |-> en, command |-> c, weight |-> DefaultWeight(n)] :
        n \in KnownNames \ CommandLess, en \in BOOLEAN, c \in ConfigCommands}
    \cup {[name |-> n, enabled |-> en, command |-> Undefined, weight |-> DefaultWeight(n)] :
        n \in CommandLess, en \in BOOLEAN}
    \cup {[name |-> n, enabled |-> en, command |-> c, weight |-> DefaultWeight(n)] :
        n \in CheckNames \ KnownNames, en \in BOOLEAN, c \in {Null, Undefined, CmdValid}}
    \cup {[name |-> n, enabled |-> TRUE,
           command |-> IF n \in CommandLess THEN Undefined ELSE CmdValid,
           weight |-> 0] : n \in KnownNames}

DistinctNames(cs) == \A i, j \in 1..Len(cs) : cs[i].name = cs[j].name => i = j

\* config.scoring.deployThreshold: absent, or a number
Thresholds == {Undefined, Num(0), Num(50)}

\* the configurations of at most maxChecks entries
Configs(maxChecks) ==
    {[checks |-> cs, deployThreshold |-> th] :
        cs \in {l \in SeqsUpTo(ConfigEntries, maxChecks) : DistinctNames(l)},
        th \in Thresholds}

JestOutputs ==
    {<<Line("jestSuites", sf, sp, sf + sp), Line("jestTests", f, p, f + p)>>
        \o (IF f > 0 THEN <<Line("jestBullet", 0, 0, 0)>> ELSE <<>>) :
        sf \in 0..1, sp \in 0..1, f \in 0..MaxTests, p \in 0..MaxTests}
VitestOutputs ==
    {<<Line("vitestTests", f, p, f + p)>> : f \in 0..MaxTests, p \in 0..MaxTests}
NodeOutputs ==
    {<<Line("nodePass", 0, p, 0), Line("nodeFail", f, 0, 0)>>
        \o (IF f > 0 THEN <<Line("tapNotOk", 0, 0, 0)>> ELSE <<>>) :
        f \in 0..MaxTests, p \in 0..MaxTests}
MochaOutputs ==
    {<<Line("mochaPass", 0, p, 0)>>
        \o (IF f > 0 THEN <<Line("mochaFail", f, 0, 0)>> ELSE <<>>) :
        f \in 0..MaxTests, p \in 0..MaxTests}
PlainOutputs == {<<>>, <<Line("notFound", 0, 0, 0)>>, <<Line("noise", 0, 0, 0)>>}

LintOutputs ==
    {<<>>, <<Line("notFound", 0, 0, 0)>>}
    \cup {<<Line("lintSummary", 0, w, 0)>> : w \in 0..MaxWarnings}
    \cup {<<Line("lintError", 0, 0, 0), Line("lintSummary", 1, w, 0)>> : w \in 0..MaxWarnings}

AuditOutputs ==
    {<<Line(k, c, h, m)>> : k \in {"auditJson", "auditText"},
                            c \in 0..MaxVulns, h \in 0..MaxVulns, m \in 0..1}
    \cup {<<>>}
    \* a JSON report whose metadata.vulnerabilities.critical is not a count
    \cup {<<Line("auditJson", -1, 0, 0)>>}

\* what execSync can yield for the command of check `name`
ToolOutcomes(name) ==
    CASE name = "typescript" ->
            {[clean |-> TRUE, lines |-> <<>>],
             [clean |-> FALSE, lines |-> <<Line("tsError", 0, 0, 1)>>],
             [clean |-> FALSE, lines |-> <<Line("tsError", 0, 0, 1), Line("tsError", 0, 0, 2)>>]}
            \cup {[clean |-> FALSE, lines |-> l] : l \in PlainOutputs}
      [] name = "lint" ->
            {[clean |-> c, lines |-> l] : c \in BOOLEAN, l \in LintOutputs}
      [] name = "test" ->
            {[clean |-> c, lines |-> l] : c \in BOOLEAN,
                l \in JestOutputs \cup VitestOutputs \cup NodeOutputs
                      \cup MochaOutputs \cup PlainOutputs}
      [] name = "security" ->
            {[clean |-> Len(l) = 0, lines |-> l] : l \in AuditOutputs}
      [] name = "build" ->
            {[clean |-> TRUE, lines |-> <<>>],
             [clean |-> FALSE, lines |-> <<Line("buildError", 0, 0, 1)>>],
             [clean |-> FALSE, lines |-> <<Line("buildWarning", 0, 0, 1)>>]}

\* what a scan of the project tree can find
ScanOutcomes(name) ==
    {Scan(p, r, v) : p \in (IF name = "content" THEN 0..1 ELSE {1}), r \in 0..1,
                     v \in {0, 1, ScanMaxErrors + 1}}
    \ {Scan(0, r, v) : r \in 0..1, v \in {1, ScanMaxErrors + 1}}

\* pattern sources and labels
SrcTodo == <<"T", "O", "D", "O">>
SrcPlus == <<"a", "+">>
SrcNested == <<"(", "a", "+", ")", "+">>
SrcAlternation == <<"(", "a", "|", "b", ")", "*">>
SrcTooLong == [i \in 1..(MAX_PATTERN_LENGTH + 1) |-> "a"]
SrcUnbalanced == <<"(">>

\* entries of checkConfig.patterns: plain strings, {regex, label} objects,
\* an object without a regex, an object labelled with a number, and null
PatternPool ==
    {Str(SrcTodo), Str(SrcNested), Str(SrcTooLong), Str(SrcUnbalanced),
     PatternObject(Str(SrcPlus), Str(<<"P">>)),
     PatternObject(Str(SrcAlternation), Str(<<"A", "l", "t">>)),
     PatternObject(Str(SrcTodo), Num(7)),
     PatternObject(Undefined, Str(<<"x">>)),
     Null}

\* collected files: relative path, lock file or not, readable or not, and
\* the matches its text holds for each pattern source
File(relative, lock, readable, matches) ==
    [relative |-> relative, lock |-> lock, readable |-> readable, matches |-> matches]

PathTestA == <<"t", "/", "a">>
PathSrcA == <<"s", "/", "a">>
PathSrcT == <<"s", "/", "t">>

FilePool ==
    {File(PathTestA, FALSE, TRUE, (SrcTodo :> 1)),
     File(PathTestA, FALSE, TRUE, (SrcTodo :> ScanMaxErrors + 1)),
     File(PathTestA, FALSE, TRUE, (SrcPlus :> 1) @@ (BUILT_IN_PATTERNS[1].source :> 1)),
     File(PathSrcA, FALSE, TRUE, (SrcTodo :> 1) @@ (SrcPlus :> 1) @@ (SrcNested :> 1)),
     File(PathSrcA, FALSE, TRUE, (SrcTodo :> ScanMaxErrors + 1) @@ (SrcTooLong :> 1)),
     File(PathSrcA, FALSE, TRUE, <<>>),
     File(PathSrcA, TRUE, TRUE, (BUILT_IN_PATTERNS[1].source :> 1)),
     File(PathSrcT, FALSE, FALSE, (SrcTodo :> 1))}

\* what collectFiles returns: files of distinct paths
FileLists(maxFiles) ==
    {fs \in SeqsUpTo(FilePool, maxFiles) :
        \A i, j \in 1..Len(fs) : i # j => fs[i].relative # fs[j].relative}

\* Object.entries(checkConfig.allowlist): distinct keys, in insertion order
AllowEntry(key, allowed) == [key |-> key, allowed |-> allowed]

AllowPool ==
    {AllowEntry(<<"t", "/">>, Str(<<"*">>)),
     AllowEntry(<<"t", "/">>, Arr(<<Str(<<"t", "o", "d">>)>>)),
     AllowEntry(<<"s">>, Str(<<"*">>)),
     AllowEntry(<<"a">>, Arr(<<Str(<<"p">>)>>)),
     AllowEntry(<<"a">>, Str(<<"x">>))}

Allowlists ==
    {al \in SeqsUpTo(AllowPool, 2) :
        \A i, j \in 1..Len(al) : i # j => al[i].key # al[j].key}

\* the arguments of one scan
ScanInputs(maxPatterns, maxFiles) ==
    {[check |-> check,
      checkConfig |-> [weight |-> 15, patterns |-> ps, allowlist |-> al],
      files |-> fs] :
        check \in CommandLess, ps \in SeqsUpTo(PatternPool, maxPatterns),
        al \in Allowlists, fs \in FileLists(maxFiles)}

(***************************************************************************)
(* core/runner.js                                                          *)
(***************************************************************************)
CHECK_MODULES == KnownNames

\* the command the implementation of check `name` passes to execSync
ExecCommand(name, checkConfig) ==
    CASE name = "typescript" -> TypeScriptCommand(checkConfig)
      [] name = "security" -> SecurityCommand(checkConfig)
      [] OTHER -> checkConfig.command

\* mod.run(config, checkConfig), given what the tool or the scan yields
ModRun(name, checkConfig, out) ==
    CASE name = "typescript" -> TypeScriptRun(checkConfig, out)
      [] name = "lint" -> LintRun(checkConfig, out)
      [] name = "test" -> TestRun(checkConfig, out)
      [] name = "content" -> ContentRun(checkConfig, out)
      [] name = "secrets" -> SecretsRun(checkConfig, out)
      [] name = "security" -> SecurityRun(checkConfig, out)
      [] name = "build" -> BuildRun(checkConfig, out)

InLoop == pc = "run" /\ idx <= Len(config.checks)
Current == config.checks[idx]

\* faulty variant: a disabled check that carries a command is not skipped
IsDisabledUnlessCommand(checkConfig) ==
    ~checkConfig.enabled /\ ~Truthy(checkConfig.command)

IsDisabled(checkConfig) == ~checkConfig.enabled
\* faulty variant: an absent command is skipped like a null one
IsNoCommandOrAbsent(name, checkConfig) ==
    checkConfig.command \in {Null, Undefined} /\ name \notin CommandLess

IsNoCommand(name, checkConfig) ==
    checkConfig.command = Null /\ name \notin CommandLess

\* !(Object.hasOwn(CHECK_MODULES, name) ? CHECK_MODULES[name] : null): only the
\* own keys of CHECK_MODULES name an implementation, inherited ones do not
IsUnknown(name) == name \notin CHECK_MODULES

\* faulty variant: the build command is not validated
NeedsValidationExceptBuild(name, checkConfig) ==
    name \notin CommandLess \cup {"build"} /\ Truthy(checkConfig.command)

NeedsValidation(name, checkConfig) ==
    name \notin CommandLess /\ Truthy(checkConfig.command)

\* the record of one call validateCommand(command) made at loop position `at`
Validated(at, command) ==
    [at |-> at, command |-> command, valid |-> validateCommand(command).valid]

\* faulty variant: the Result is appended twice
PushTwice(result) ==
    /\ results' = Append(Append(results, result), result)
    /\ idx' = idx + 1
    /\ UNCHANGED <<config, pc, scoreResult, exitCode, saved, deploy, heap, vInput, vOutput>>

Push(result) ==
    /\ results' = Append(results, result)
    /\ idx' = idx + 1
    /\ UNCHANGED <<config, pc, scoreResult, exitCode, saved, deploy, heap, vInput, vOutput>>

\* if (!checkConfig.enabled) { results.push(...); continue; }
RunDisabled ==
    /\ InLoop
    /\ IsDisabled(Current)
    /\ Push(createResult(Current.name, "", TRUE, <<>>,
                         <<Msg("${name} check is disabled", Current.name, Undefined, 0)>>, 0))
    /\ UNCHANGED <<validatorLog, shellLog, invoked>>

\* if (checkConfig.command === null && ...) { results.push(...); continue; }
RunNoCommand ==
    /\ InLoop
    /\ ~IsDisabled(Current)
    /\ IsNoCommand(Current.name, Current)
    /\ Push(createResult(Current.name, "", TRUE, <<>>,
                         <<Msg("No ${name} command detected - skipped", Current.name, Undefined, 0)>>, 0))
    /\ UNCHANGED <<validatorLog, shellLog, invoked>>

\* if (!mod) { results.push(...); continue; }
RunUnknown ==
    /\ InLoop
    /\ ~IsDisabled(Current)
    /\ ~IsNoCommand(Current.name, Current)
    /\ IsUnknown(Current.name)
    /\ Push(createResult(Current.name, "", FALSE,
                         <<Msg("Unknown check: ${name}", Current.name, Undefined, 0)>>,
                         <<>>, 0))
    /\ UNCHANGED <<validatorLog, shellLog, invoked>>

\* faulty variant: the rejected command is left out of the errors
RejectionErrorsNoCommand(checkConfig, validation) ==
    <<[text |-> "Command blocked by security validator: ${validation.reason}",
       name |-> validation.reason, arg |-> Undefined, n |-> 0,
       pattern |-> validation.pattern],
      Msg("Commands must not contain shell operators", "", Undefined, 0),
      Msg("Edit fortress.config.js to use a simple, single command.", "", Undefined, 0)>>

RejectionErrors(checkConfig, validation) ==
    <<[text |-> "Command blocked by security validator: ${validation.reason}",
       name |-> validation.reason, arg |-> Undefined, n |-> 0,
       pattern |-> validation.pattern],
      Msg("Rejected command: ${checkConfig.command}", "", checkConfig.command, 0),
      Msg("Commands must not contain shell operators", "", Undefined, 0),
      Msg("Edit fortress.config.js to use a simple, single command.", "", Undefined, 0)>>

\* if (!validation.valid) { results.push(...); continue; }
RunRejected ==
    /\ InLoop
    /\ ~IsDisabled(Current)
    /\ ~IsNoCommand(Current.name, Current)
    /\ ~IsUnknown(Current.name)
    /\ NeedsValidation(Current.name, Current)
    /\ ~validateCommand(Current.command).valid
    /\ validatorLog' = Append(validatorLog, Validated(idx, Current.command))
    /\ Push(createResult(Current.name, "", FALSE,
                         RejectionErrors(Current, validateCommand(Current.command)),
                         <<>>, 0))
    /\ UNCHANGED <<shellLog, invoked>>

\* results.push(mod.run(config, checkConfig)) for a process-spawning check
RunCommandCheck ==
    /\ InLoop
    /\ ~IsDisabled(Current)
    /\ ~IsNoCommand(Current.name, Current)
    /\ ~IsUnknown(Current.name)
    /\ Current.name \notin CommandLess
    /\ NeedsValidation(Current.name, Current) => validateCommand(Current.command).valid
    /\ validatorLog' = IF NeedsValidation(Current.name, Current)
                       THEN Append(validatorLog, Validated(idx, Current.command))
                       ELSE validatorLog
    /\ invoked' = invoked \cup {idx}
    /\ LET command == ExecCommand(Current.name, Current)
       IN  IF Spawns(command)
           THEN /\ shellLog' = Append(shellLog, [at |-> idx, command |-> command])
                /\ \E out \in ToolOutcomes(Current.name) :
                       Push(ModRun(Current.name, Current, out))
           ELSE /\ shellLog' = shellLog
                /\ Push(ModRun(Current.name, Current, SpawnError))

\* results.push(mod.run(config, checkConfig)) for the content and secret scans
RunScanCheck ==
    /\ InLoop
    /\ ~IsDisabled(Current)
    /\ Current.name \in CommandLess
    /\ invoked' = invoked \cup {idx}
    /\ \E scan \in ScanOutcomes(Current.name) :
           Push(ModRun(Current.name, Current, scan))
    /\ UNCHANGED <<validatorLog, shellLog>>

\* mod.run(config, checkConfig) of a scan throws: nothing catches it in
\* runner.run, which ends without returning
RunScanRaise ==
    /\ InLoop
    /\ ~IsDisabled(Current)
    /\ Current.name \in CommandLess
    /\ \E p \in PatternPool :
           LET checkConfig == [weight |-> Current.weight, patterns |-> <<p>>,
                               allowlist |-> <<>>]
           IN  (IF Current.name = "content"
                THEN ContentScan(checkConfig, <<>>)
                ELSE SecretsScan(checkConfig, <<>>)) = Thrown
    /\ invoked' = invoked \cup {idx}
    /\ pc' = "raised"
    /\ UNCHANGED <<config, idx, results, validatorLog, shellLog,
                   scoreResult, exitCode, saved, deploy, heap, vInput, vOutput>>

\* return results;
RunReturn ==
    /\ pc = "run"
    /\ idx > Len(config.checks)
    /\ pc' = "score"
    /\ UNCHANGED <<config, idx, results, validatorLog, shellLog, invoked,
                   scoreResult, exitCode, saved, deploy, heap, vInput, vOutput>>

(***************************************************************************)
(* core/scorer.js                                                          *)
(***************************************************************************)
DefaultThreshold == 95

RECURSIVE SumOver(_, _)
\* reduce((sum, x) => sum + f(x), 0) over a sequence of numbers
SumOver(s, i) == IF i = 0 THEN 0 ELSE SumOver(s, i - 1) + s[i]

\* config.checks[key] && config.checks[key].enabled
EnabledKey(cfg, key) ==
    \E i \in 1..Len(cfg.checks) : cfg.checks[i].name = key /\ cfg.checks[i].enabled

\* faulty variant: the weights of the disabled entries are counted as well
TotalWeightAllEntries(cfg) ==
    LET w == [i \in 1..Len(cfg.checks) |-> cfg.checks[i].weight]
    IN  SumOver(w, Len(w))

\* sum of (c.weight || 0) over the enabled entries
TotalWeight(cfg) ==
    LET w == [i \in 1..Len(cfg.checks) |->
                 IF cfg.checks[i].enabled THEN cfg.checks[i].weight ELSE 0]
    IN  SumOver(w, Len(w))

\* sum of r.score over the results whose key names an enabled entry
RawScore(res, cfg) ==
    LET s == [i \in 1..Len(res) |->
                 IF EnabledKey(cfg, res[i].key) THEN res[i].score ELSE 0]
    IN  SumOver(s, Len(s))

\* config.scoring?.deployThreshold || 95
EffectiveThreshold(cfg) ==
    IF Truthy(cfg.deployThreshold) THEN cfg.deployThreshold.n ELSE DefaultThreshold

\* The pairs (rawScore, totalWeight), totalWeight up to 100 and rawScore up
\* to four times as much, for which the IEEE-754 double
\* (rawScore / totalWeight) * 100 comes out just below an exact half: the
\* quotient is rounded to 53 bits before the multiplication (23 / 40 * 100
\* is 57.49999999999999).
HalfLostInDoubles ==
    {<<23, 40>>, <<41, 40>>, <<51, 40>>, <<87, 40>>, <<97, 40>>,
     <<46, 80>>, <<82, 80>>, <<102, 80>>, <<174, 80>>, <<194, 80>>}

\* Math.round((rawScore / totalWeight) * 100) evaluated in doubles
NormalizedScore(rawScore, totalWeight) ==
    IF <<rawScore, totalWeight>> \in HalfLostInDoubles
    THEN Round(rawScore * 100, totalWeight) - 1
    ELSE Round(rawScore * 100, totalWeight)

calculate(res, cfg) ==
    LET totalWeight == TotalWeight(cfg)
        rawScore == RawScore(res, cfg)
        normalizedScore == NormalizedScore(rawScore, totalWeight)
    IN  IF totalWeight = 0
        THEN [score |-> 100, maxScore |-> 100, checks |-> res]
        ELSE [score |-> normalizedScore,
              maxScore |-> 100,
              rawScore |-> rawScore,
              totalWeight |-> totalWeight,
              deployReady |-> normalizedScore >= EffectiveThreshold(cfg),
              checks |-> res]

\* the value before scorer.calculate has returned
NoScore == [pending |-> TRUE]

Calculate ==
    /\ pc = "score"
    /\ scoreResult' = calculate(results, config)
    /\ pc' = "report"
    /\ UNCHANGED <<config, idx, results, validatorLog, shellLog, invoked,
                   exitCode, saved, deploy, heap, vInput, vOutput>>

(***************************************************************************)
(* cli/commands/report.js                                                  *)
(***************************************************************************)
\* a property read used as a condition: an absent property is undefined
TruthyField(obj, f) == f \in DOMAIN obj /\ obj[f]

\* --json: print the report, process.exit(scoreResult.deployReady ? 0 : 1)
ReportJSON ==
    /\ pc = "report"
    /\ exitCode' = IF TruthyField(scoreResult, "deployReady") THEN 0 ELSE 1
    /\ pc' = "done"
    /\ UNCHANGED <<config, idx, results, validatorLog, shellLog, invoked,
                   scoreResult, saved, deploy, heap, vInput, vOutput>>

\* console mode: exit 0 without a snapshot when no result belongs to an
\* enabled check; otherwise save the snapshot and exit by allPassed
ReportConsole ==
    /\ pc = "report"
    /\ LET enabled == {i \in 1..Len(results) : EnabledKey(config, results[i].key)}
           allPassed == \A i \in enabled : results[i].passed
       IN  IF enabled = {}
           THEN exitCode' = 0 /\ saved' = saved
           ELSE exitCode' = (IF allPassed THEN 0 ELSE 1) /\ saved' = saved + 1
    /\ pc' = "done"
    /\ UNCHANGED <<config, idx, results, validatorLog, shellLog, invoked,
                   scoreResult, deploy, heap, vInput, vOutput>>

\* outside the deploy command
NoDeploy ==
    [stage |-> "none", json |-> FALSE, validate |-> -1, report |-> -1, exit |-> -1]

(***************************************************************************)
(* The report command: load the configuration, run, score, report          *)
(***************************************************************************)
Init ==
    /\ config \in Configs(MaxChecks)
    /\ pc = "run"
    /\ idx = 1
    /\ results = <<>>
    /\ validatorLog = <<>>
    /\ shellLog = <<>>
    /\ invoked = {}
    /\ scoreResult = NoScore
    /\ exitCode = -1
    /\ saved = 0
    /\ vInput = Undefined
    /\ vOutput = NoScore
    /\ heap = <<>>
    /\ deploy = NoDeploy

Next ==
    \/ RunDisabled
    \/ RunNoCommand
    \/ RunUnknown
    \/ RunRejected
    \/ RunCommandCheck
    \/ RunScanCheck
    \/ RunScanRaise
    \/ RunReturn
    \/ Calculate
    \/ ReportJSON
    \/ ReportConsole

Spec == Init /\ [][Next]_vars

(***************************************************************************)
(* The validator on its own: every value it can be given                   *)
(***************************************************************************)
CmdAlphabet == {"a", " ", ";", "&", "|", "$", "(", "BACKTICK", ">", "<", "{", "\n"}

CmdWords == {
    <<"e", "v", "a", "l">>, <<"e", "v", "a", "l", " ", "a">>,
    <<"a", " ", "e", "v", "a", "l">>, <<"e", "v", "a", "l", "s">>,
    <<"_", "e", "v", "a", "l">>, <<"a", "-", "e", "v", "a", "l", "-", "a">>,
    <<"s", "o", "u", "r", "c", "e">>, <<"s", "o", "u", "r", "c", "e", " ", "a">>,
    <<"s", "o", "u", "r", "c", "e", "s">>, <<"a", ".", "s", "o", "u", "r", "c", "e">>,
    <<"e", "x", "e", "c">>, <<"n", "p", "x", " ", "e", "x", "e", "c">>,
    <<"e", "x", "e", "c", "a">>, <<"n", "p", "x", " ", "e", "x", "e", "c", "a">>,
    <<"n", "p", "x", " ", "a">>, <<" ", "n", "p", "m", " ", "a", " ">>,
    <<"n", "p", "x">>, <<"a", " ", "n", "p", "x", " ", "a">>,
    <<"j", "e", "s", "t", " ", "a">>, <<"n", "p", "x", " ", "a", "|", "|", "a">>,
    <<"n", "p", "x", " ", "a", "\n", "a">>, <<"a", "|", "|", "|">> }

ValidatorInputs ==
    {Str(s) : s \in SeqsUpTo(CmdAlphabet, MaxCmdLen) \cup CmdWords}
    \cup {Null, Undefined, Num(0), Num(42)}

InitValidate ==
    /\ heap = <<>>
    /\ deploy = NoDeploy
    /\ vInput \in ValidatorInputs
    /\ vOutput = NoScore
    /\ config = [checks |-> <<>>, deployThreshold |-> Undefined]
    /\ pc = "validate"
    /\ idx = 1
    /\ results = <<>>
    /\ validatorLog = <<>>
    /\ shellLog = <<>>
    /\ invoked = {}
    /\ scoreResult = NoScore
    /\ exitCode = -1
    /\ saved = 0

Validate ==
    /\ pc = "validate"
    /\ vOutput' = validateCommand(vInput)
    /\ pc' = "validated"
    /\ UNCHANGED <<config, idx, results, validatorLog, shellLog, invoked,
                   scoreResult, exitCode, saved, deploy, heap, vInput>>

SpecValidate == InitValidate /\ [][Validate]_vars

(***************************************************************************)
(* The content and the secret scan on their own: every project and every   *)
(* checkConfig within the bounds                                           *)
(***************************************************************************)
InitScan ==
    /\ heap = <<>>
    /\ deploy = NoDeploy
    /\ vInput \in ScanInputs(MaxPatterns, MaxFiles)
    /\ vOutput = NoScore
    /\ config = [checks |-> <<>>, deployThreshold |-> Undefined]
    /\ pc = "scan"
    /\ idx = 1
    /\ results = <<>>
    /\ validatorLog = <<>>
    /\ shellLog = <<>>
    /\ invoked = {}
    /\ scoreResult = NoScore
    /\ exitCode = -1
    /\ saved = 0

ScanContent ==
    /\ pc = "scan"
    /\ vInput.check = "content"
    /\ vOutput' = ContentScan(vInput.checkConfig, vInput.files)
    /\ pc' = "scanned"
    /\ UNCHANGED <<config, idx, results, validatorLog, shellLog, invoked,
                   scoreResult, exitCode, saved, deploy, heap, vInput>>

ScanSecrets ==
    /\ pc = "scan"
    /\ vInput.check = "secrets"
    /\ vOutput' = SecretsScan(vInput.checkConfig, vInput.files)
    /\ pc' = "scanned"
    /\ UNCHANGED <<config, idx, results, validatorLog, shellLog, invoked,
                   scoreResult, exitCode, saved, deploy, heap, vInput>>

NextScan == ScanContent \/ ScanSecrets

SpecScan == InitScan /\ [][NextScan]_vars

(***************************************************************************)
(* The test check on its own: two outcomes of the test command scored      *)
(* under one checkConfig                                                   *)
(***************************************************************************)
\* what a TAP reporter prints for `passed` passed and `failed` failed tests
TallyOutcome(passed, failed) ==
    [clean |-> failed = 0,
     lines |-> <<Line("nodePass", 0, passed, 0), Line("nodeFail", failed, 0, 0)>>]

TestPairs(maxTally) ==
    {[checkConfig |-> [name |-> "test", enabled |-> TRUE, command |-> CmdValid,
                       weight |-> w],
      first |-> TallyOutcome(p1, f1),
      second |-> TallyOutcome(p2, f2)] :
        w \in {DefaultWeight("test"), 10},
        p1 \in 0..maxTally, f1 \in 0..maxTally,
        p2 \in 0..maxTally, f2 \in 0..maxTally}

InitTests ==
    /\ vInput \in TestPairs(MaxTally)
    /\ vOutput = NoScore
    /\ heap = <<>>
    /\ deploy = NoDeploy
    /\ config = [checks |-> <<>>, deployThreshold |-> Undefined]
    /\ pc = "tests"
    /\ idx = 1
    /\ results = <<>>
    /\ validatorLog = <<>>
    /\ shellLog = <<>>
    /\ invoked = {}
    /\ scoreResult = NoScore
    /\ exitCode = -1
    /\ saved = 0

\* the test check's run, once for each outcome
RunTests ==
    /\ pc = "tests"
    /\ vOutput' = [first |-> TestRun(vInput.checkConfig, vInput.first),
                   second |-> TestRun(vInput.checkConfig, vInput.second)]
    /\ pc' = "tested"
    /\ UNCHANGED <<config, idx, results, validatorLog, shellLog, invoked,
                   scoreResult, exitCode, saved, deploy, heap, vInput>>

SpecTests == InitTests /\ [][RunTests]_vars

(***************************************************************************)
(* secrets-check.js maskSecret on its own                                  *)
(***************************************************************************)
QuoteChars == {"\"", "'"}

\* /^["']+/ removed
RECURSIVE StripLeadingQuotes(_)
StripLeadingQuotes(s) ==
    IF Len(s) > 0 /\ Head(s) \in QuoteChars THEN StripLeadingQuotes(Tail(s)) ELSE s

\* /["']+$/ removed
RECURSIVE StripTrailingQuotes(_)
StripTrailingQuotes(s) ==
    IF Len(s) > 0 /\ s[Len(s)] \in QuoteChars
    THEN StripTrailingQuotes(SubSeq(s, 1, Len(s) - 1))
    ELSE s

\* faulty variant: the quotes are kept
maskSecretUnstripped(value) ==
    IF Len(value) <= 8 THEN <<"*", "*", "*">>
    ELSE SubSeq(value, 1, 4) \o <<"*", "*", "*">>
         \o SubSeq(value, Len(value) - 1, Len(value))

maskSecret(value) ==
    LET cleaned == StripTrailingQuotes(StripLeadingQuotes(value))
    IN  IF Len(cleaned) <= 8 THEN <<"*", "*", "*">>
        ELSE SubSeq(cleaned, 1, 4) \o <<"*", "*", "*">>
             \o SubSeq(cleaned, Len(cleaned) - 1, Len(cleaned))

SecretWords == {
    <<"A", "K", "I", "A", "I", "O", "S", "F", "O", "D", "N", "N", "7",
      "E", "X", "A", "M", "P", "L", "E">>,
    <<"s", "h", "o", "r", "t">>,
    <<"'", "1", "2", "3", "4", "5", "6", "7", "'">>,
    <<"\"", "'", "1", "2", "3", "4", "5", "6", "7", "8", "9", "'", "\"">>,
    <<"1", "2", "3", "4", "\"", "5", "6", "7", "8", "9", "'">>,
    <<"1", "2", "3", "4", "5", "6", "7", "8">>,
    <<"1", "2", "3", "4", "5", "6", "7", "8", "9">> }

MaskInputs(maxLen) == SeqsUpTo({"a", "b", "\""}, maxLen) \cup SecretWords

InitMask ==
    /\ vInput \in MaskInputs(MaxSecretLen)
    /\ vOutput = NoScore
    /\ heap = <<>>
    /\ deploy = NoDeploy
    /\ config = [checks |-> <<>>, deployThreshold |-> Undefined]
    /\ pc = "mask"
    /\ idx = 1
    /\ results = <<>>
    /\ validatorLog = <<>>
    /\ shellLog = <<>>
    /\ invoked = {}
    /\ scoreResult = NoScore
    /\ exitCode = -1
    /\ saved = 0

Mask ==
    /\ pc = "mask"
    /\ vOutput' = maskSecret(vInput)
    /\ pc' = "masked"
    /\ UNCHANGED <<config, idx, results, validatorLog, shellLog, invoked,
                   scoreResult, exitCode, saved, deploy, heap, vInput>>

SpecMask == InitMask /\ [][Mask]_vars

(***************************************************************************)
(* cli/commands/quick.js.  The objects of the command live in `heap`, each *)
(* under its address, so that two references to one object can be told     *)
(* from two equal objects.  A configuration object is [checks,             *)
(* deployThreshold] with `checks` the address of its checks object; a      *)
(* checks object is the list of its [key, ref] properties in insertion     *)
(* order; a check entry is [enabled, command, weight].                     *)
(***************************************************************************)
\* the address configLoader.load leaves loadedConfig at
LoadedAt == 1

\* the objects configLoader.load(projectRoot) returns for configuration cfg
LoadedHeap(cfg) ==
    [a \in 1..(Len(cfg.checks) + 2) |->
        IF a = LoadedAt
        THEN [checks |-> 2, deployThreshold |-> cfg.deployThreshold]
        ELSE IF a = 2
        THEN [entries |-> [i \in 1..Len(cfg.checks) |->
                              [key |-> cfg.checks[i].name, ref |-> 2 + i]]]
        ELSE [enabled |-> cfg.checks[a - 2].enabled,
              command |-> cfg.checks[a - 2].command,
              weight |-> cfg.checks[a - 2].weight]]

\* the properties of the checks object of the configuration at `root`
ChecksOf(h, root) == h[h[root].checks].entries

\* the configuration a reader of the object at `root` sees
Deref(h, root) ==
    [checks |-> [i \in 1..Len(ChecksOf(h, root)) |->
                    [name |-> ChecksOf(h, root)[i].key,
                     enabled |-> h[ChecksOf(h, root)[i].ref].enabled,
                     command |-> h[ChecksOf(h, root)[i].ref].command,
                     weight |-> h[ChecksOf(h, root)[i].ref].weight]],
     deployThreshold |-> h[root].deployThreshold]

\* the address of quick's `config`: the first one after the loaded objects
ConfigAt(h) == Len(ChecksOf(h, LoadedAt)) + 3

\* faulty variant: [key, val] -- the clone refers to the loaded entry
EntryShareRef(ref, fresh) == ref

\* [key, { ...val }] -- the clone refers to a fresh copy of the entry
EntryCopyRef(ref, fresh) == fresh

\* const config = { ...loadedConfig, checks: Object.fromEntries(...) }
QuickClone ==
    /\ pc = "clone"
    /\ LET loaded == ChecksOf(heap, LoadedAt)
           n == Len(loaded)
           root == ConfigAt(heap)
       IN  heap' = [a \in 1..(2 * n + 4) |->
                IF a < root THEN heap[a]
                ELSE IF a = root
                THEN [checks |-> root + 1,
                      deployThreshold |-> heap[LoadedAt].deployThreshold]
                ELSE IF a = root + 1
                THEN [entries |-> [i \in 1..n |->
                         [key |-> loaded[i].key,
                          ref |-> EntryCopyRef(loaded[i].ref, root + 1 + i)]]]
                ELSE heap[loaded[a - root - 1].ref]]
    /\ pc' = "disableSecurity"
    /\ UNCHANGED <<config, idx, results, validatorLog, shellLog, invoked,
                   scoreResult, exitCode, saved, deploy, vInput, vOutput>>

\* if (config.checks[key]) config.checks[key].enabled = false;
DisableIn(h, key) ==
    LET entries == ChecksOf(h, ConfigAt(h))
        at == {i \in 1..Len(entries) : entries[i].key = key}
    IN  IF at = {} THEN h
        ELSE [h EXCEPT ![entries[CHOOSE i \in at : TRUE].ref].enabled = FALSE]

QuickDisableSecurity ==
    /\ pc = "disableSecurity"
    /\ heap' = DisableIn(heap, "security")
    /\ pc' = "disableBuild"
    /\ UNCHANGED <<config, idx, results, validatorLog, shellLog, invoked,
                   scoreResult, exitCode, saved, deploy, vInput, vOutput>>

QuickDisableBuild ==
    /\ pc = "disableBuild"
    /\ heap' = DisableIn(heap, "build")
    /\ pc' = "quickRun"
    /\ UNCHANGED <<config, idx, results, validatorLog, shellLog, invoked,
                   scoreResult, exitCode, saved, deploy, vInput, vOutput>>

\* runner.run(config) is entered with quick's config
QuickRun ==
    /\ pc = "quickRun"
    /\ config' = Deref(heap, ConfigAt(heap))
    /\ pc' = "run"
    /\ UNCHANGED <<idx, results, validatorLog, shellLog, invoked,
                   scoreResult, exitCode, saved, deploy, heap, vInput, vOutput>>

\* --json: process.exit(output.passed ? 0 : 1)
QuickExitJSON ==
    /\ pc = "report"
    /\ exitCode' = IF \A i \in 1..Len(results) :
                          ~EnabledKey(config, results[i].key) \/ results[i].passed
                   THEN 0 ELSE 1
    /\ pc' = "done"
    /\ UNCHANGED <<config, idx, results, validatorLog, shellLog, invoked,
                   scoreResult, saved, deploy, heap, vInput, vOutput>>

\* console mode: process.exit(allPassed ? 0 : 1), allPassed being what
\* renderCheckResults of cli/helpers.js returns
QuickExitConsole ==
    /\ pc = "report"
    /\ exitCode' \in {0, 1}
    /\ pc' = "done"
    /\ UNCHANGED <<config, idx, results, validatorLog, shellLog, invoked,
                   scoreResult, saved, deploy, heap, vInput, vOutput>>

\* vInput keeps the configuration as configLoader.load returned it
InitQuick ==
    /\ vInput \in Configs(MaxChecks)
    /\ heap = LoadedHeap(vInput)
    /\ deploy = NoDeploy
    /\ vOutput = NoScore
    /\ config = [checks |-> <<>>, deployThreshold |-> Undefined]
    /\ pc = "clone"
    /\ idx = 1
    /\ results = <<>>
    /\ validatorLog = <<>>
    /\ shellLog = <<>>
    /\ invoked = {}
    /\ scoreResult = NoScore
    /\ exitCode = -1
    /\ saved = 0

NextQuick ==
    \/ QuickClone
    \/ QuickDisableSecurity
    \/ QuickDisableBuild
    \/ QuickRun
    \/ RunDisabled
    \/ RunNoCommand
    \/ RunUnknown
    \/ RunRejected
    \/ RunCommandCheck
    \/ RunScanCheck
    \/ RunScanRaise
    \/ RunReturn
    \/ Calculate
    \/ QuickExitJSON
    \/ QuickExitConsole

SpecQuick == InitQuick /\ [][NextQuick]_vars

(***************************************************************************)
(* bin/fortress deploy: validate, then report, each as a child process     *)
(* started with execFileSync and the same flags.  `deploy` holds the       *)
(* stage of the command, whether --json was given, and the exit codes the  *)
(* command has seen; the runner's variables are those of the child that    *)
(* is running.                                                             *)
(***************************************************************************)
MaxDeployChecks == 1

DeployStart(json) ==
    [stage |-> "start", json |-> json, validate |-> -1, report |-> -1, exit |-> -1]

\* faulty variant: an execFileSync that returns whatever the child's status
ExecFileSyncSilent(status) == FALSE

\* execFileSync throws when the child ends with a non-zero status
ExecFileSyncThrows(status) == status # 0

\* execFileSync(process.execPath, [validatePath, ...args.slice(1)])
DeployValidate ==
    /\ pc = "deploy"
    /\ deploy.stage = "start"
    /\ deploy' = [deploy EXCEPT !.stage = "validate"]
    /\ pc' = "run"
    /\ UNCHANGED <<config, idx, results, validatorLog, shellLog, invoked,
                   scoreResult, exitCode, saved, heap, vInput, vOutput>>

\* validate.js --json: output.passed, process.exit(output.passed ? 0 : 1)
ValidateExitJSON ==
    /\ pc = "report"
    /\ deploy.stage = "validate"
    /\ deploy.json
    /\ exitCode' = IF \A i \in 1..Len(results) :
                          ~EnabledKey(config, results[i].key) \/ results[i].passed
                   THEN 0 ELSE 1
    /\ pc' = "done"
    /\ UNCHANGED <<config, idx, results, validatorLog, shellLog, invoked,
                   scoreResult, saved, deploy, heap, vInput, vOutput>>

\* validate.js, console mode: process.exit(allPassed ? 0 : 1), allPassed
\* being what renderCheckResults of cli/helpers.js returns
ValidateExitConsole ==
    /\ pc = "report"
    /\ deploy.stage = "validate"
    /\ ~deploy.json
    /\ exitCode' \in {0, 1}
    /\ pc' = "done"
    /\ UNCHANGED <<config, idx, results, validatorLog, shellLog, invoked,
                   scoreResult, saved, deploy, heap, vInput, vOutput>>

\* an exception that leaves runner.run is uncaught in the child: exit code 1
ChildRaised ==
    /\ pc = "raised"
    /\ deploy.stage \in {"validate", "report"}
    /\ exitCode' = 1
    /\ pc' = "done"
    /\ UNCHANGED <<config, idx, results, validatorLog, shellLog, invoked,
                   scoreResult, saved, deploy, heap, vInput, vOutput>>

\* the first catch: process.exit(1)
DeployValidateFailed ==
    /\ pc = "done"
    /\ deploy.stage = "validate"
    /\ ExecFileSyncThrows(exitCode)
    /\ deploy' = [deploy EXCEPT !.stage = "exited", !.validate = exitCode, !.exit = 1]
    /\ pc' = "exited"
    /\ UNCHANGED <<config, idx, results, validatorLog, shellLog, invoked,
                   scoreResult, exitCode, saved, heap, vInput, vOutput>>

\* execFileSync(process.execPath, [reportPath, ...args.slice(1)]): a new
\* process, which loads the configuration and runs the checks again
DeployReport ==
    /\ pc = "done"
    /\ deploy.stage = "validate"
    /\ ~ExecFileSyncThrows(exitCode)
    /\ deploy' = [deploy EXCEPT !.stage = "report", !.validate = exitCode]
    /\ pc' = "run"
    /\ idx' = 1
    /\ results' = <<>>
    /\ validatorLog' = <<>>
    /\ shellLog' = <<>>
    /\ invoked' = {}
    /\ scoreResult' = NoScore
    /\ exitCode' = -1
    /\ UNCHANGED <<config, saved, heap, vInput, vOutput>>

\* report.js --json in the second child
DeployReportJSON ==
    /\ deploy.stage = "report"
    /\ deploy.json
    /\ ReportJSON

\* report.js, console mode, in the second child
DeployReportConsole ==
    /\ deploy.stage = "report"
    /\ ~deploy.json
    /\ ReportConsole

\* the second catch: process.exit(1); otherwise process.exit(0)
DeployExit ==
    /\ pc = "done"
    /\ deploy.stage = "report"
    /\ deploy' = [deploy EXCEPT !.stage = "exited", !.report = exitCode,
                                !.exit = IF ExecFileSyncThrows(exitCode) THEN 1 ELSE 0]
    /\ pc' = "exited"
    /\ UNCHANGED <<config, idx, results, validatorLog, shellLog, invoked,
                   scoreResult, exitCode, saved, heap, vInput, vOutput>>

InitDeploy ==
    /\ config \in Configs(MaxDeployChecks)
    /\ deploy \in {DeployStart(json) : json \in BOOLEAN}
    /\ pc = "deploy"
    /\ idx = 1
    /\ results = <<>>
    /\ validatorLog = <<>>
    /\ shellLog = <<>>
    /\ invoked = {}
    /\ scoreResult = NoScore
    /\ exitCode = -1
    /\ saved = 0
    /\ vInput = Undefined
    /\ vOutput = NoScore
    /\ heap = <<>>

NextDeploy ==
    \/ DeployValidate
    \/ RunDisabled
    \/ RunNoCommand
    \/ RunUnknown
    \/ RunRejected
    \/ RunCommandCheck
    \/ RunScanCheck
    \/ RunScanRaise
    \/ RunReturn
    \/ Calculate
    \/ ValidateExitJSON
    \/ ValidateExitConsole
    \/ ChildRaised
    \/ DeployValidateFailed
    \/ DeployReport
    \/ DeployReportJSON
    \/ DeployReportConsole
    \/ DeployExit

SpecDeploy == InitDeploy /\ [][NextDeploy]_vars

(***************************************************************************)
(* core/reporter.js: report invocations that save into one directory.      *)
(* vInput holds the clock (in milliseconds) and the invocations, vOutput   *)
(* the directory: a set of files [name, content].                          *)
(***************************************************************************)
MaxInvocations == 2
MaxClock == 2
SnapshotScores == {0, 100}

Digit(n) == <<"0", "1", "2", "3", "4", "5", "6", "7", "8", "9">>[n + 1]

\* new Date().toISOString() at clock value t, a sequence of characters; the
\* date, hour and minute fields are single tokens
toISOString(t) ==
    <<"2026-01-01", "T", "00", ":", "00", ":", "0", "0", ".", "0", "0", Digit(t), "Z">>

\* s.replace(/[:.]/g, '-')
ReplaceColonsAndDots(s) ==
    [i \in 1..Len(s) |-> IF s[i] \in {":", "."} THEN "-" ELSE s[i]]

\* s.replace(ch, rep): the first occurrence only
ReplaceFirst(s, ch, rep) ==
    IF \E i \in 1..Len(s) : s[i] = ch
    THEN LET i == CHOOSE k \in 1..Len(s) :
                      s[k] = ch /\ \A j \in 1..(k - 1) : s[j] # ch
         IN  SubSeq(s, 1, i - 1) \o rep \o SubSeq(s, i + 1, Len(s))
    ELSE s

\* `fortress-report-${timestamp}.json`
SnapshotName(report) ==
    LET timestamp == ReplaceFirst(ReplaceFirst(ReplaceColonsAndDots(report.timestamp),
                                               "T", <<"_">>), "Z", <<>>)
    IN  <<"fortress-report-">> \o timestamp \o <<".json">>

\* fs.writeFileSync(filePath, ...): creates the file or replaces its content
WriteFile(dir, name, content) ==
    {f \in dir : f.name # name} \cup {[name |-> name, content |-> content]}

NoReport == [timestamp |-> <<>>, score |-> 0]

\* the clock advances
Tick ==
    /\ pc = "save"
    /\ vInput.now < MaxClock
    /\ vInput' = [vInput EXCEPT !.now = @ + 1]
    /\ UNCHANGED <<config, pc, idx, results, validatorLog, shellLog, invoked,
                   scoreResult, exitCode, saved, deploy, heap, vOutput>>

\* generateReport: the report takes the time of its construction
GenerateReport(p) ==
    /\ pc = "save"
    /\ vInput.procs[p].stage = "start"
    /\ \E s \in SnapshotScores :
           vInput' = [vInput EXCEPT !.procs[p] =
                          [stage |-> "generated",
                           report |-> [timestamp |-> toISOString(vInput.now),
                                       score |-> s]]]
    /\ UNCHANGED <<config, pc, idx, results, validatorLog, shellLog, invoked,
                   scoreResult, exitCode, saved, deploy, heap, vOutput>>

\* saveReport(report, outputDir)
SaveReport(p) ==
    /\ pc = "save"
    /\ vInput.procs[p].stage = "generated"
    /\ vOutput' = WriteFile(vOutput, SnapshotName(vInput.procs[p].report),
                            vInput.procs[p].report)
    /\ vInput' = [vInput EXCEPT !.procs[p].stage = "saved"]
    /\ saved' = saved + 1
    /\ UNCHANGED <<config, pc, idx, results, validatorLog, shellLog, invoked,
                   scoreResult, exitCode, deploy, heap>>

InitSave ==
    /\ vInput = [now |-> 0,
                 procs |-> [p \in 1..MaxInvocations |->
                               [stage |-> "start", report |-> NoReport]]]
    /\ vOutput = {}
    /\ pc = "save"
    /\ config = [checks |-> <<>>, deployThreshold |-> Undefined]
    /\ idx = 1
    /\ results = <<>>
    /\ validatorLog = <<>>
    /\ shellLog = <<>>
    /\ invoked = {}
    /\ scoreResult = NoScore
    /\ exitCode = -1
    /\ saved = 0
    /\ heap = <<>>
    /\ deploy = NoDeploy

NextSave ==
    \/ Tick
    \/ \E p \in 1..MaxInvocations : GenerateReport(p)
    \/ \E p \in 1..MaxInvocations : SaveReport(p)

SpecSave == InitSave /\ [][NextSave]_vars

(***************************************************************************)
(* core/agent-runner.js loadReports: the reports of a directory.  A file   *)
(* is [name, content]; a name is a sequence of characters in which the     *)
(* prefix "fortress-report-" and the suffix ".json" are single tokens.     *)
(***************************************************************************)
MaxDirFiles == 3
MaxLimit == 2

\* UTF-16 code of the first character of a token
CharCode(ch) ==
    CASE ch = "-" -> 45
      [] ch \in {".", ".json", ".txt"} -> 46
      [] ch \in {"0", "1", "2", "3", "4", "5", "6", "7", "8", "9"} ->
             48 + (CHOOSE n \in 0..9 : Digit(n) = ch)
      [] ch = "_" -> 95
      [] ch = "b" -> 98
      [] ch = "fortress-report-" -> 102
      [] OTHER -> 110

\* a < b as Array.prototype.sort() compares strings
LexLess(a, b) ==
    \E k \in 1..(Len(a) + 1) :
        /\ \A j \in 1..(k - 1) : j <= Len(b) /\ a[j] = b[j]
        /\ k <= Len(b)
        /\ k <= Len(a) => CharCode(a[k]) < CharCode(b[k])

\* names.sort()
RECURSIVE SortNames(_)
SortNames(names) ==
    IF names = {} THEN <<>>
    ELSE LET first == CHOOSE a \in names : \A b \in names \ {a} : LexLess(a, b)
         IN  <<first>> \o SortNames(names \ {first})

\* f.startsWith('fortress-report-') && f.endsWith('.json')
IsReportFile(name) ==
    Len(name) >= 2 /\ name[1] = "fortress-report-" /\ name[Len(name)] = ".json"

\* arr.slice(-limit): the last `limit` elements; slice(-0) is the whole array
SliceLast(arr, limit) ==
    IF limit = 0 \/ limit >= Len(arr) THEN arr
    ELSE SubSeq(arr, Len(arr) - limit + 1, Len(arr))

\* parsed && typeof parsed.score === 'number' && parsed.timestamp, for the
\* content of a file: "notJSON" is text that JSON.parse rejects
IsValidReport(content) ==
    /\ content.kind = "json"
    /\ content.score # Undefined
    /\ Truthy(content.timestamp)

ContentOf(dir, name) == (CHOOSE f \in dir : f.name = name).content

\* the loop over `selected`: the reports pushed, with the file they came from
\* (deployReady, duration and checks are copied likewise and left out here)
Loaded(dir, selected) ==
    LET kept == SelectSeq(selected, LAMBDA name : IsValidReport(ContentOf(dir, name)))
    IN  [i \in 1..Len(kept) |->
            [timestamp |-> ContentOf(dir, kept[i]).timestamp,
             score |-> ContentOf(dir, kept[i]).score,
             file |-> kept[i]]]

loadReports(input) ==
    IF ~input.exists THEN <<>>
    ELSE LET reportFiles == SortNames({f.name : f \in {g \in input.dir : IsReportFile(g.name)}})
         IN  Loaded(input.dir, SliceLast(reportFiles, input.limit))

ReportName(stamp) == <<"fortress-report-">> \o stamp \o <<".json">>

NamePool ==
    {ReportName(<<"1">>), ReportName(<<"1", "0">>), ReportName(<<"2">>),
     ReportName(<<"b">>), <<"notes", ".txt">>}

ContentPool ==
    {[kind |-> "json", score |-> Num(90), timestamp |-> Str(<<"t">>)],
     [kind |-> "json", score |-> Undefined, timestamp |-> Str(<<"t">>)],
     [kind |-> "json", score |-> Num(0), timestamp |-> Undefined],
     [kind |-> "notJSON", score |-> Undefined, timestamp |-> Undefined]}

\* the directories of up to maxFiles files with distinct names, with every
\* limit up to maxLimit, and the directory that does not exist
LoadInputs(maxFiles, maxLimit) ==
    LET dirs == UNION {[names -> ContentPool] :
                          names \in {ns \in SUBSET NamePool : Cardinality(ns) <= maxFiles}}
    IN  {[exists |-> TRUE, limit |-> l,
          dir |-> {[name |-> n, content |-> d[n]] : n \in DOMAIN d}] :
            d \in dirs, l \in 0..maxLimit}
        \cup {[exists |-> FALSE, limit |-> l, dir |-> {}] : l \in 0..maxLimit}

InitLoad ==
    /\ vInput \in LoadInputs(MaxDirFiles, MaxLimit)
    /\ vOutput = <<>>
    /\ pc = "load"
    /\ config = [checks |-> <<>>, deployThreshold |-> Undefined]
    /\ idx = 1
    /\ results = <<>>
    /\ validatorLog = <<>>
    /\ shellLog = <<>>
    /\ invoked = {}
    /\ scoreResult = NoScore
    /\ exitCode = -1
    /\ saved = 0
    /\ heap = <<>>
    /\ deploy = NoDeploy

LoadReports ==
    /\ pc = "load"
    /\ vOutput' = loadReports(vInput)
    /\ pc' = "loaded"
    /\ UNCHANGED <<config, idx, results, validatorLog, shellLog, invoked,
                   scoreResult, exitCode, saved, deploy, heap, vInput>>

SpecLoad == InitLoad /\ [][LoadReports]_vars

(***************************************************************************)
(* The per-line match loop of the content and secret scans, one iteration  *)
(* a step: `while ((match = pattern.regex.exec(line)) !== null)`.  vInput  *)
(* is the line, the pattern, the scan and what isAllowlisted answers;      *)
(* vOutput is pattern.regex.lastIndex and the errors pushed.  Indices are  *)
(* zero-based as in the code.                                              *)
(***************************************************************************)
MaxLineLen == 3

LineChars == {"a", "b"}

\* the patterns: source text and what it matches
LoopPatterns == {"a+", "a*", "b?", "(?:)", "$", "ab", "a*$"}

\* number of consecutive `ch` in the line from index i on
RECURSIVE RunOf(_, _, _)
RunOf(line, i, ch) ==
    IF i < Len(line) /\ line[i + 1] = ch THEN 1 + RunOf(line, i + 1, ch) ELSE 0

\* length of the match of the pattern that starts at index i, -1 when there
\* is none (quantifiers are greedy)
MatchLength(source, line, i) ==
    CASE source = "a+" -> IF RunOf(line, i, "a") > 0 THEN RunOf(line, i, "a") ELSE -1
      [] source = "a*" -> RunOf(line, i, "a")
      [] source = "b?" -> IF i < Len(line) /\ line[i + 1] = "b" THEN 1 ELSE 0
      [] source = "(?:)" -> 0
      [] source = "$" -> IF i = Len(line) THEN 0 ELSE -1
      [] source = "ab" -> IF i + 1 < Len(line) /\ line[i + 1] = "a" /\ line[i + 2] = "b"
                          THEN 2 ELSE -1
      [] source = "a*$" -> IF i + RunOf(line, i, "a") = Len(line)
                           THEN RunOf(line, i, "a") ELSE -1

NoMatch == [index |-> -1, length |-> -1]

\* RegExp.prototype.exec with the g flag: the leftmost match at or after
\* lastIndex, none when lastIndex is beyond the line
exec(source, line, lastIndex) ==
    LET starts == {i \in lastIndex..Len(line) : MatchLength(source, line, i) >= 0}
    IN  IF starts = {} THEN NoMatch
        ELSE LET m == CHOOSE i \in starts : \A j \in starts : i <= j
             IN  [index |-> m, length |-> MatchLength(source, line, m)]

\* faulty variant: the cursor left where exec put it
CursorKept(lastIndex) == lastIndex

\* pattern.regex.lastIndex++
CursorAfterEmptyMatch(lastIndex) == lastIndex + 1

\* the text shown in the error: the match, masked by the secret scan
Shown(scan, text) == IF scan = "secrets" THEN maskSecret(text) ELSE text

\* one evaluation of the loop condition and, when it holds, of the body
MatchStep ==
    /\ pc = "exec"
    /\ LET line == vInput.line
           match == exec(vInput.source, line, vOutput.lastIndex)
           after == match.index + match.length
       IN  IF match = NoMatch
           THEN /\ vOutput' = [vOutput EXCEPT !.lastIndex = 0]
                /\ pc' = "left"
           ELSE IF match.length = 0
           THEN /\ vOutput' = [vOutput EXCEPT !.lastIndex = CursorAfterEmptyMatch(after)]
                /\ pc' = IF CursorAfterEmptyMatch(after) > Len(line) THEN "left" ELSE "exec"
           ELSE IF vInput.allowlisted = "throws"
           THEN /\ vOutput' = [vOutput EXCEPT !.lastIndex = after]
                /\ pc' = "thrown"
           ELSE IF vInput.allowlisted = "yes"
           THEN /\ vOutput' = [vOutput EXCEPT !.lastIndex = after]
                /\ pc' = "exec"
           ELSE /\ vOutput' =
                       [lastIndex |-> after,
                        errors |-> Append(vOutput.errors,
                                          [index |-> match.index,
                                           length |-> match.length,
                                           shown |-> Shown(vInput.scan,
                                                           SubSeq(line, match.index + 1, after))])]
                /\ pc' = "exec"
    /\ UNCHANGED <<config, idx, results, validatorLog, shellLog, invoked,
                   scoreResult, exitCode, saved, deploy, heap, vInput>>

LoopInputs(maxLen) ==
    {[line |-> l, source |-> s, scan |-> c, allowlisted |-> a] :
        l \in SeqsUpTo(LineChars, maxLen), s \in LoopPatterns,
        c \in {"content", "secrets"}, a \in {"yes", "no", "throws"}}

\* pattern.regex.lastIndex = 0
InitMatch ==
    /\ vInput \in LoopInputs(MaxLineLen)
    /\ vOutput = [lastIndex |-> 0, errors |-> <<>>]
    /\ pc = "exec"
    /\ config = [checks |-> <<>>, deployThreshold |-> Undefined]
    /\ idx = 1
    /\ results = <<>>
    /\ validatorLog = <<>>
    /\ shellLog = <<>>
    /\ invoked = {}
    /\ scoreResult = NoScore
    /\ exitCode = -1
    /\ saved = 0
    /\ heap = <<>>
    /\ deploy = NoDeploy

SpecMatch == InitMatch /\ [][MatchStep]_vars

\* the loop runs on: an iteration that can be taken is taken
SpecMatchFair == SpecMatch /\ WF_vars(MatchStep)

(***************************************************************************)
(* checks/secrets-check.js: the file walk.  A name is a sequence of        *)
(* tokens in which every "." is a token of its own; an entry of a          *)
(* directory is [name, type, children], the children of a symbolic link    *)
(* being what lies behind it.  A path is the sequence of names from the    *)
(* root.  vInput is [entries, extensions, skipDirs], vOutput the paths of  *)
(* the files whose content is scanned.                                     *)
(***************************************************************************)
MaxEntries == 2
MaxDepth == 2

DEFAULT_EXTENSIONS ==
    {<<".", e>> : e \in {"ts", "tsx", "js", "jsx", "mjs", "cjs", "json", "yaml", "yml",
                         "sh", "py", "rb", "go", "java", "kt", "swift", "rs", "toml",
                         "ini", "cfg", "conf", "properties"}}

DEFAULT_DOTFILES ==
    {<<".", "env">>, <<".", "env", ".", "local">>, <<".", "env", ".", "production">>,
     <<".", "env", ".", "staging">>, <<".", "env", ".", "development">>,
     <<".", "env", ".", "test">>, <<".", "npmrc">>, <<".", "pypirc">>}

DEFAULT_SKIP_DIRS ==
    {<<"node_modules">>, <<".", "next">>, <<".", "git">>, <<"dist">>, <<"coverage">>,
     <<".", "vercel">>, <<"build">>, <<".", "nuxt">>, <<".", "output">>, <<"vendor">>}

LOCK_FILES ==
    {<<"package-lock", ".", "json">>, <<"yarn", ".", "lock">>, <<"pnpm-lock", ".", "yaml">>,
     <<"bun", ".", "lockb">>, <<"composer", ".", "lock">>, <<"Gemfile", ".", "lock">>,
     <<"Cargo", ".", "lock">>, <<"poetry", ".", "lock">>, <<"go", ".", "sum">>}

\* path.extname: from the last "." on, empty when there is none or when the
\* only one is the first character
extname(name) ==
    LET dots == {i \in 2..Len(name) : name[i] = "."}
    IN  IF dots = {} THEN <<>>
        ELSE SubSeq(name, CHOOSE i \in dots : \A j \in dots : j <= i, Len(name))

Entry(name, type, children) == [name |-> name, type |-> type, children |-> children]

\* collectFiles(dir, extensions, skipDirs), dir having these entries and
\* this path
RECURSIVE collectFiles(_, _, _, _)
collectFiles(entries, dir, extensions, skipDirs) ==
    IF entries = <<>> THEN <<>>
    ELSE LET entry == Head(entries)
             rest == collectFiles(Tail(entries), dir, extensions, skipDirs)
             fullPath == Append(dir, entry.name)
         IN  IF entry.name \in skipDirs THEN rest
             ELSE IF entry.type = "symlink" THEN rest
             ELSE IF entry.type = "dir" /\ entry.name[1] = "." THEN rest
             ELSE IF entry.type = "dir"
             THEN collectFiles(entry.children, fullPath, extensions, skipDirs) \o rest
             ELSE IF extname(entry.name) \in extensions \/ entry.name \in DEFAULT_DOTFILES
             THEN <<fullPath>> \o rest
             ELSE rest

\* run: the files collected, without those whose basename is a lock file
ScannedPaths(input) ==
    SelectSeq(collectFiles(input.entries, <<>>, input.extensions, input.skipDirs),
              LAMBDA p : p[Len(p)] \notin LOCK_FILES)

FileNames ==
    {<<".", "env">>, <<"a", ".", "js">>, <<"package-lock", ".", "json">>,
     <<"yarn", ".", "lock">>, <<"notes", ".", "md">>}

DirNames == {<<"src">>, <<".", "cache">>, <<"node_modules">>}

\* the entries a directory can hold when `depth` levels may follow below it
RECURSIVE EntryPool(_)
EntryPool(depth) ==
    LET files == {Entry(n, "file", <<>>) : n \in FileNames}
        links == {Entry(n, "symlink", c) :
                     n \in {<<"a", ".", "js">>, <<".", "env">>, <<"src">>},
                     c \in {<<>>, <<Entry(<<".", "env">>, "file", <<>>)>>}}
    IN  IF depth = 0 THEN files \cup links
        ELSE LET below == EntryPool(depth - 1)
             IN  files \cup links
                 \cup {Entry(n, "dir", c) :
                          n \in DirNames, c \in {<<>>} \cup {<<e>> : e \in below}}

\* the project trees: up to maxEntries entries of distinct names at the root
WalkInputs(maxEntries, maxDepth) ==
    LET pool == EntryPool(maxDepth)
        lists == {l \in SeqsUpTo(pool, maxEntries) :
                     \A i, j \in 1..Len(l) : i # j => l[i].name # l[j].name}
    IN  {[entries |-> l, extensions |-> x, skipDirs |-> s] :
            l \in lists,
            x \in {DEFAULT_EXTENSIONS, {<<".", "json">>, <<".", "lock">>, <<".", "md">>}},
            s \in {DEFAULT_SKIP_DIRS, {<<"src">>}, {<<"node_modules">>, <<".", "env">>}}}

InitWalk ==
    /\ vInput \in WalkInputs(MaxEntries, MaxDepth)
    /\ vOutput = <<>>
    /\ pc = "walk"
    /\ config = [checks |-> <<>>, deployThreshold |-> Undefined]
    /\ idx = 1
    /\ results = <<>>
    /\ validatorLog = <<>>
    /\ shellLog = <<>>
    /\ invoked = {}
    /\ scoreResult = NoScore
    /\ exitCode = -1
    /\ saved = 0
    /\ heap = <<>>
    /\ deploy = NoDeploy

Walk ==
    /\ pc = "walk"
    /\ vOutput' = ScannedPaths(vInput)
    /\ pc' = "walked"
    /\ UNCHANGED <<config, idx, results, validatorLog, shellLog, invoked,
                   scoreResult, exitCode, saved, deploy, heap, vInput>>

SpecWalk == InitWalk /\ [][Walk]_vars

(***************************************************************************)
(* Properties                                                              *)
(***************************************************************************)
\* the checks whose implementation spawns a process
CommandBearing == KnownNames \ CommandLess

\* results[i] is what the loop pushed for config.checks[i]
Processed == 1..Len(results)

ValidatorCalledAt(i) == \E j \in 1..Len(validatorLog) : validatorLog[j].at = i
ShellUsedAt(i) == \E k \in 1..Len(shellLog) : shellLog[k].at = i

\* C1: every disabled check yields passed = true, score = 0 and the warning
\* that it is disabled; neither validateCommand nor the implementation (nor
\* the shell) is used for it, whatever its command.
C1_DisabledCheckIsSkipped ==
    \A i \in Processed :
        ~config.checks[i].enabled =>
            /\ results[i].passed
            /\ results[i].score = 0
            /\ \E w \in Range(results[i].warnings) :
                   /\ w.text = "${name} check is disabled"
                   /\ w.name = config.checks[i].name
            /\ i \notin invoked
            /\ ~ValidatorCalledAt(i)
            /\ ~ShellUsedAt(i)

\* a disabled check whose command carries a shell operator has been processed
C1_Witness ==
    \E i \in Processed :
        ~config.checks[i].enabled /\ config.checks[i].command = CmdChained

AcceptedBefore(k) ==
    \E j \in 1..Len(validatorLog) :
        /\ validatorLog[j].command = shellLog[k].command
        /\ validatorLog[j].valid
        /\ validatorLog[j].at <= shellLog[k].at

ClaimedOperators ==
    {<<";">>, <<"&", "&">>, <<"|", "|">>, <<"|">>, <<"$", "(">>, <<"BACKTICK">>,
     <<">">>, <<"<">>, <<"$", "{">>}
ClaimedWords ==
    {<<"e", "v", "a", "l">>, <<"s", "o", "u", "r", "c", "e">>, <<"e", "x", "e", "c">>}

\* w occurs in s as a whole word
OccursAsWord(s, w) ==
    \E i \in 1..(Len(s) - Len(w) + 1) :
        /\ \A j \in 1..Len(w) : s[i + j - 1] = w[j]
        /\ (i > 1 => s[i - 1] \notin WordChars)
        /\ (i + Len(w) <= Len(s) => s[i + Len(w)] \notin WordChars)

ClaimedInvalid(c) ==
    \/ c.t # "str"
    \/ Len(Trim(c.s)) = 0
    \/ \E op \in ClaimedOperators : Contains(Trim(c.s), op)
    \/ \E w \in ClaimedWords : OccursAsWord(Trim(c.s), w)

\* C4: validateCommand returns valid = false exactly for a non-string, an
\* empty (after trimming) string and a string holding a listed operator or
\* the whole word eval, source or exec; knownSafe reports the safe prefix
\* and does not change validity.
C4_ValidatorDenylist ==
    pc = "validated" =>
        /\ vOutput.valid = ~ClaimedInvalid(vInput)
        /\ vOutput.valid =>
               vOutput.knownSafe =
                   (\E prefix \in SAFE_PREFIXES : StartsWith(Trim(vInput.s), prefix))

\* a string holding a denylisted word inside a longer word was accepted,
\* without a known-safe prefix
C4_Witness ==
    /\ pc = "validated"
    /\ vInput = Str(<<"e", "v", "a", "l", "s">>)
    /\ vOutput.valid
    /\ ~vOutput.knownSafe

\* C5: a command holding a newline between two commands is rejected by
\* validateCommand and never reaches the shell.
C5_NewlineCommandRejected ==
    \A i \in Processed :
        LET cc == config.checks[i]
        IN  (/\ cc.enabled
             /\ cc.name \in CommandBearing
             /\ cc.command.t = "str"
             /\ Contains(Trim(cc.command.s), <<"\n">>)) =>
                /\ ~validateCommand(cc.command).valid
                /\ ~ShellUsedAt(i)

\* scorer.calculate has returned
Scored == pc \in {"report", "done"}

\* C6: the normalized score lies in 0..100, and is 100 when the total
\* weight of the enabled checks is 0.
C6_ScoreWithinBounds ==
    Scored =>
        /\ scoreResult.score >= 0
        /\ scoreResult.score <= 100
        /\ TotalWeight(config) = 0 => scoreResult.score = 100

\* C7: every Result the runner pushes has a score between 0 and the
\* configured weight of its check.
C7_ResultScoreWithinWeight ==
    \A i \in Processed :
        /\ results[i].score >= 0
        /\ results[i].score <= config.checks[i].weight

\* C8: when the total weight of the enabled checks is 0 the score result has
\* score = 100 and deployReady = true, so that the JSON report exits 0.
C8_ZeroWeightIsDeployReady ==
    (Scored /\ TotalWeight(config) = 0) =>
        /\ scoreResult.score = 100
        /\ TruthyField(scoreResult, "deployReady")

\* the threshold the claim gives: the configured one, 95 only when none is
\* configured
ClaimedThreshold(cfg) ==
    IF cfg.deployThreshold = Undefined THEN 95 ELSE cfg.deployThreshold.n

\* C9: with a positive total weight, deployReady holds exactly when the
\* score is at least the configured deployThreshold (95 when none is
\* configured).
C9_DeployReadyIffThreshold ==
    (Scored /\ TotalWeight(config) > 0) =>
        (scoreResult.deployReady <=> scoreResult.score >= ClaimedThreshold(config))

RECURSIVE SumEnabledWeights(_)
\* the weights of the enabled entries, added from the head
SumEnabledWeights(checks) ==
    IF checks = <<>> THEN 0
    ELSE (IF Head(checks).enabled THEN Head(checks).weight ELSE 0)
         + SumEnabledWeights(Tail(checks))

\* the keys of the enabled entries of the configuration
EnabledNames == {config.checks[i].name : i \in {j \in 1..Len(config.checks) : config.checks[j].enabled}}

RECURSIVE SumEnabledScores(_)
\* the scores of the results whose key is the key of an enabled entry
SumEnabledScores(res) ==
    IF res = <<>> THEN 0
    ELSE (IF Head(res).key \in EnabledNames THEN Head(res).score ELSE 0)
         + SumEnabledScores(Tail(res))

\* C10: with a positive total weight, totalWeight is the sum of the weights
\* of the enabled checks (a skipped enabled check included), rawScore is the
\* sum of the scores of the results whose key names an enabled check, and
\* score is rawScore / totalWeight * 100 rounded: an integer at distance at
\* most one half from it.
C10_ScoreArithmetic ==
    (Scored /\ SumEnabledWeights(config.checks) > 0) =>
        /\ scoreResult.totalWeight = SumEnabledWeights(config.checks)
        /\ scoreResult.rawScore = SumEnabledScores(results)
        /\ 200 * scoreResult.rawScore - scoreResult.totalWeight
               <= 2 * scoreResult.score * scoreResult.totalWeight
        /\ 2 * scoreResult.score * scoreResult.totalWeight
               <= 200 * scoreResult.rawScore + scoreResult.totalWeight

\* an enabled check skipped for its null command keeps its weight in the
\* denominator while another check earns points
C10_Witness ==
    /\ Scored
    /\ "rawScore" \in DOMAIN scoreResult
    /\ scoreResult.rawScore > 0
    /\ \E i \in Processed :
           /\ config.checks[i].enabled
           /\ config.checks[i].command = Null
           /\ config.checks[i].name \in CommandBearing
           /\ config.checks[i].weight > 0
           /\ results[i].score = 0
           /\ scoreResult.totalWeight > scoreResult.rawScore

\* positions of the enabled entries of a configuration
EnabledPositions(cfg) == {i \in 1..Len(cfg.checks) : cfg.checks[i].enabled}

\* the configuration that differs from cfg only in that the entries at the
\* positions D are disabled
Disabling(cfg, D) ==
    [cfg EXCEPT !.checks =
        [i \in 1..Len(cfg.checks) |->
            IF i \in D THEN [cfg.checks[i] EXCEPT !.enabled = FALSE]
            ELSE cfg.checks[i]]]

\* every check enabled in cfg has a Result under its key with score = weight
AllAtFullWeight(res, cfg) ==
    \A i \in EnabledPositions(cfg) :
        \E k \in 1..Len(res) :
            res[k].key = cfg.checks[i].name /\ res[k].score = cfg.checks[i].weight

\* C11: for the configuration A of the run and every configuration B that
\* disables a strict subset of A's enabled checks, if every check still
\* enabled in B has a Result with score = weight, then calculate on B gives
\* score 100 and calculate on A with the same Results gives a score <= 100.
C11_AdaptiveScoring ==
    Scored =>
        \A D \in SUBSET EnabledPositions(config) :
            (D # EnabledPositions(config)
             /\ AllAtFullWeight(results, Disabling(config, D))) =>
                /\ calculate(results, Disabling(config, D)).score = 100
                /\ scoreResult.score <= 100

\* results[i] is the Result of the i-th entry of config.checks: it carries
\* the entry's key as its name (a Result made by the runner) or as its key
\* (a Result made by the entry's implementation)
ResultOfEntry(i) ==
    \/ results[i].name = config.checks[i].name
    \/ results[i].key = config.checks[i].name

\* the loop has handled exactly the entries before idx, in order, and no
\* later entry has been started
OneResultPerHandledEntry ==
    /\ Len(results) = (IF pc \in {"run", "raised"} THEN idx - 1 ELSE Len(config.checks))
    /\ \A i \in Processed : ResultOfEntry(i)
    /\ invoked \subseteq Processed \cup (IF pc = "raised" THEN {idx} ELSE {})
    /\ \A k \in 1..Len(shellLog) : shellLog[k].at \in Processed
    /\ \A k \in 1..Len(validatorLog) : validatorLog[k].at \in Processed

\* a step that changes results appends one Result, and only the entry whose
\* Result is appended is started in that step
AppendsOneResult ==
    results' # results =>
        /\ Len(results') = Len(results) + 1
        /\ SubSeq(results', 1, Len(results)) = results
        /\ invoked' \ invoked \subseteq {Len(results')}
        /\ \A k \in (Len(shellLog) + 1)..Len(shellLog') : shellLog'[k].at = Len(results')

\* C12: runner.run returns exactly one Result per key of config.checks, in
\* the configuration's iteration order, and the checks run one at a time:
\* the i-th Result is appended before the (i+1)-th check is started.
C12_OneResultPerCheckInOrder ==
    []OneResultPerHandledEntry /\ [][AppendsOneResult]_vars

\* run has returned the Results of two checks that were both executed
C12_Witness ==
    /\ pc = "score"
    /\ Len(results) = 2
    /\ invoked = {1, 2}
    /\ Len(shellLog) = 2

\* C13: every enabled check other than content and secrets whose command is
\* null or absent yields passed = true, score = 0 and the warning that no
\* command was detected, and its implementation is not invoked.
C13_NoCommandIsSkipped ==
    \A i \in Processed :
        LET cc == config.checks[i]
        IN  (/\ cc.enabled
             /\ cc.name \notin CommandLess
             /\ cc.command \in {Null, Undefined}) =>
                /\ results[i].passed
                /\ results[i].score = 0
                /\ \E w \in Range(results[i].warnings) :
                       /\ w.text = "No ${name} command detected - skipped"
                       /\ w.name = cc.name
                /\ i \notin invoked

\* the Result of entry i is the failing Result that states the key is unknown
IsUnknownResult(i) ==
    /\ ~results[i].passed
    /\ results[i].score = 0
    /\ \E e \in Range(results[i].errors) :
           e.text = "Unknown check: ${name}" /\ e.name = config.checks[i].name
    /\ i \notin invoked

\* C14 as stated: every enabled key without an implementation in the
\* registry (a key that only names an inherited property included) yields
\* passed = false and the error that the key is unknown, whatever its command.
C14_UnknownKeyFails ==
    \A i \in Processed :
        (config.checks[i].enabled /\ config.checks[i].name \notin KnownNames) =>
            IsUnknownResult(i)

\* C14 amended: the same for every such key whose command is not null; with
\* a null command the key gets the passing no-command Result instead.
C14_UnknownKeyFailsUnlessNullCommand ==
    \A i \in Processed :
        LET cc == config.checks[i]
        IN  (cc.enabled /\ cc.name \notin KnownNames) =>
                IF cc.command # Null
                THEN IsUnknownResult(i)
                ELSE /\ results[i].passed
                     /\ \E w \in Range(results[i].warnings) :
                            w.text = "No ${name} command detected - skipped"

\* an enabled key that only names an inherited property has been handled,
\* once with a command, once without the command field
C14_Witness ==
    \E i, j \in Processed :
        /\ config.checks[i].enabled
        /\ config.checks[i].name \in InheritedNames
        /\ config.checks[i].command = CmdValid
        /\ config.checks[j].enabled
        /\ config.checks[j].name \notin KnownNames
        /\ config.checks[j].command = Undefined

\* C15: runner.run and scorer.calculate never raise: for every configuration
\* and every failure of a check, the failure becomes a Result and run returns
\* the full Result list.  Violated: a null entry of checkConfig.patterns makes
\* the content (and the secret) scan throw from its own catch handler, and
\* runner.run ends with the exception instead of returning.
C15_RunNeverRaises == pc # "raised"

\* C16: quick force-disables security and build on its own copy: at every
\* point of the quick command the loaded configuration object still reads as
\* configLoader.load returned it, enabled flags and all other fields.
C16_QuickLeavesLoadedConfig == Deref(heap, LoadedAt) = vInput

\* quick has disabled an enabled security or build check in the
\* configuration it hands to runner.run
C16_Witness ==
    /\ pc = "run"
    /\ \E i \in 1..Len(vInput.checks) :
           /\ vInput.checks[i].name \in {"security", "build"}
           /\ vInput.checks[i].enabled
           /\ config.checks[i].name = vInput.checks[i].name
           /\ ~config.checks[i].enabled

\* the counts the test check reads from an outcome
Tally(out) == parseTestOutput(out.lines)

\* passed1 / total1 < passed2 / total2, both totals being positive
LowerPassRate(out1, out2) ==
    /\ Tally(out1).total > 0
    /\ Tally(out2).total > 0
    /\ Tally(out1).passed * Tally(out2).total < Tally(out2).passed * Tally(out1).total

\* C17: under one weight, an outcome with a higher pass rate gets a strictly
\* higher score.  Violated: Math.round maps close pass rates to one score
\* (weight 25: 1/7 gives 4 and 1/6 gives 4).
C17_ScoreStrictlyMonotone ==
    (pc = "tested" /\ LowerPassRate(vInput.first, vInput.second)) =>
        vOutput.first.score < vOutput.second.score

\* C17 as the code has it: an outcome with a higher pass rate never gets a
\* lower score.
C17_ScoreMonotone ==
    (pc = "tested" /\ LowerPassRate(vInput.first, vInput.second)) =>
        vOutput.first.score <= vOutput.second.score

\* two outcomes of different pass rates were scored, one of them higher
C17_Witness ==
    /\ pc = "tested"
    /\ LowerPassRate(vInput.first, vInput.second)
    /\ Tally(vInput.first).passed > 0
    /\ vOutput.first.score < vOutput.second.score
    /\ vOutput.second.score < vInput.checkConfig.weight

\* C18: every Result with passed = false carries at least one error, whether
\* the runner made it or a check implementation did.  Violated: the security
\* check sets passed by `critical === 0 && high === 0` but pushes an error
\* only for counts above 0, so a JSON report with a negative count fails
\* the check without any error.
C18_FailedResultHasErrors ==
    \A i \in Processed : ~results[i].passed => Len(results[i].errors) > 0

\* a scan has returned a Result
ScanReturned == pc = "scanned" /\ vOutput # Thrown

\* the file's relative path contains an allowlist key whose value is '*'
StarListed(file) ==
    \E i \in 1..Len(vInput.checkConfig.allowlist) :
        /\ vInput.checkConfig.allowlist[i].allowed = Str(<<"*">>)
        /\ Includes(file.relative, vInput.checkConfig.allowlist[i].key)

\* the patterns the scan matches with
PatternsInUse ==
    (IF vInput.check = "secrets" THEN BUILT_IN_PATTERNS ELSE <<>>)
    \o CompiledPatterns(CompileAll(vInput.checkConfig.patterns, ""))

\* the scan finds a match in the file
HasMatch(file) ==
    /\ Scanned(file, vInput.check = "secrets")
    /\ \E p \in 1..Len(PatternsInUse) : Matches(file, PatternsInUse[p].source) > 0

\* C19: no match in a file whose path contains a '*'-valued allowlist key
\* appears in errors, for any pattern and label; when all matches lie in
\* such files the check passes with score = weight.
C19_WildcardAllowlistSuppresses ==
    ScanReturned =>
        /\ \A f \in 1..Len(vInput.files) :
               StarListed(vInput.files[f]) =>
                   \A e \in 1..Len(vOutput.errors) :
                       vOutput.errors[e].file # vInput.files[f].relative
        /\ (\A f \in 1..Len(vInput.files) :
                HasMatch(vInput.files[f]) => StarListed(vInput.files[f])) =>
               /\ vOutput.passed
               /\ vOutput.score = vInput.checkConfig.weight

\* a scan under a two-entry allowlist found all its matches in '*'-listed
\* files and passed
C19_Witness ==
    /\ ScanReturned
    /\ \E f \in 1..Len(vInput.files) :
           HasMatch(vInput.files[f]) /\ StarListed(vInput.files[f])
    /\ \A f \in 1..Len(vInput.files) :
           HasMatch(vInput.files[f]) => StarListed(vInput.files[f])
    /\ vOutput.passed
    /\ Len(vInput.checkConfig.allowlist) = 2

\* the source and the label the scans read from a pattern entry that has them
HasSource(p) == p.t = "str" \/ (p.t = "obj" /\ Truthy(p.regex) /\ Truthy(p.label))
SourceOf(p) == IF p.t = "str" THEN p.s ELSE p.regex.s
LabelOf(p) == IF p.t = "str" THEN p ELSE p.label

\* the entry exceeds 200 characters or is flagged by the ReDoS heuristics
MustBeRejected(p) ==
    HasSource(p) /\ (Len(SourceOf(p)) > 200 \/ isReDoSRisk(SourceOf(p)))

\* C20: a configured pattern that exceeds 200 characters or is flagged by the
\* ReDoS heuristics is not used for matching, and the Result carries a
\* warning naming it, for every project and every other pattern.  Violated:
\* with more than 30 violations of the other patterns the Result's warnings
\* are only the overflow entry, and the warning about the pattern is gone.
C20_RejectedPatternWarned ==
    ScanReturned =>
        \A i \in 1..Len(vInput.checkConfig.patterns) :
            MustBeRejected(vInput.checkConfig.patterns[i]) =>
                /\ \A e \in 1..Len(vOutput.errors) :
                       vOutput.errors[e].label # LabelOf(vInput.checkConfig.patterns[i])
                /\ \E w \in 1..Len(vOutput.warnings) :
                       /\ "label" \in DOMAIN vOutput.warnings[w]
                       /\ vOutput.warnings[w].label = LabelOf(vInput.checkConfig.patterns[i])

\* number of matches of the patterns `inUse`, in the scanned files, that the
\* allowlist does not suppress
RECURSIVE SumTo(_, _)
SumTo(f, n) == IF n = 0 THEN 0 ELSE f[n] + SumTo(f, n - 1)

UnsuppressedIn(file, inUse) ==
    IF ~Scanned(file, vInput.check = "secrets") THEN 0
    ELSE SumTo([p \in 1..Len(inUse) |->
                   IF Matches(file, inUse[p].source) > 0
                      /\ isAllowlisted(file.relative, inUse[p].label,
                                       vInput.checkConfig.allowlist) # "yes"
                   THEN Matches(file, inUse[p].source)
                   ELSE 0],
               Len(inUse))

Unsuppressed(inUse) ==
    SumTo([f \in 1..Len(vInput.files) |-> UnsuppressedIn(vInput.files[f], inUse)],
          Len(vInput.files))

\* the violations in the order the scan comes to them
ViolationsInOrder(inUse) ==
    ScanErrors(vInput.files, inUse, vInput.checkConfig.allowlist,
               IF vInput.check = "secrets"
               THEN "${relative}:${line} - ${label} (matched: ${masked})"
               ELSE "${relative}:${line}:${column} - ${label} (matched: ${match})",
               vInput.check = "secrets")

\* C21: errors never holds more than 30 entries; with n > 30 unsuppressed
\* violations it holds the first 30, warnings is the single entry stating
\* n - 30, and the check fails with score 0.
C21_ErrorsCappedAtThirty ==
    ScanReturned =>
        /\ Len(vOutput.errors) <= 30
        /\ LET inUse == PatternsInUse
               n == Unsuppressed(inUse)
           IN  n > 30 =>
                   /\ vOutput.errors = SubSeq(ViolationsInOrder(inUse), 1, 30)
                   /\ Len(vOutput.warnings) = 1
                   /\ vOutput.warnings[1].n = n - 30
                   /\ "label" \notin DOMAIN vOutput.warnings[1]
                   /\ ~vOutput.passed
                   /\ vOutput.score = 0

\* a scan over two files found more than 31 unsuppressed violations
C21_Witness ==
    /\ ScanReturned
    /\ Len(vInput.files) = 2
    /\ Len(vOutput.errors) = 30
    /\ Unsuppressed(PatternsInUse) > 31

\* `mid` is v without its leading and trailing quote characters
IsStripped(v, mid) ==
    \E a, b \in 0..Len(v) :
        /\ a + b <= Len(v)
        /\ mid = SubSeq(v, a + 1, Len(v) - b)
        /\ \A i \in 1..a : v[i] \in QuoteChars
        /\ \A i \in (Len(v) - b + 1)..Len(v) : v[i] \in QuoteChars
        /\ mid # <<>> => (mid[1] \notin QuoteChars /\ mid[Len(mid)] \notin QuoteChars)

\* C22: maskSecret(v) is "***" when v without its surrounding quotes has 8
\* characters or fewer, else the first 4 characters of that text, "***" and
\* its last 2 characters; at most 6 characters of the secret are shown.
C22_MaskSecret ==
    pc = "masked" =>
        /\ \E a, b \in 0..Len(vInput) :
               /\ a + b <= Len(vInput)
               /\ LET mid == SubSeq(vInput, a + 1, Len(vInput) - b)
                  IN  /\ IsStripped(vInput, mid)
                      /\ Len(mid) <= 8 => vOutput = <<"*", "*", "*">>
                      /\ Len(mid) > 8 =>
                             vOutput = <<mid[1], mid[2], mid[3], mid[4], "*", "*", "*",
                                         mid[Len(mid) - 1], mid[Len(mid)]>>
        /\ Len(vOutput) - 3 <= 6

\* a quoted secret of more than 8 characters was masked
C22_Witness ==
    /\ pc = "masked"
    /\ Len(vInput) > 10
    /\ vInput[1] \in QuoteChars
    /\ vInput[Len(vInput)] \in QuoteChars
    /\ Len(vOutput) = 9

\* C23: in every execution of deploy, the report child is started only
\* after the validate child has exited with code 0; when validate exits
\* non-zero, report is never started and no snapshot is written; deploy
\* exits 0 exactly when validate and report both exit 0, and 1 otherwise.
C23_DeployGate ==
    /\ deploy.stage \in {"start", "validate"} => deploy.report = -1 /\ saved = 0
    /\ deploy.stage = "report" \/ deploy.report # -1 => deploy.validate = 0
    /\ deploy.validate \notin {-1, 0} =>
           deploy.stage = "exited" /\ deploy.report = -1 /\ saved = 0
    /\ deploy.stage = "exited" =>
           deploy.exit = (IF deploy.validate = 0 /\ deploy.report = 0 THEN 0 ELSE 1)

\* validate failed on an enabled check: deploy left with 1, report not started
C23_Witness ==
    /\ deploy.stage = "exited"
    /\ deploy.validate = 1
    /\ deploy.report = -1
    /\ deploy.exit = 1
    /\ saved = 0
    /\ \E i \in 1..Len(results) : EnabledKey(config, results[i].key) /\ ~results[i].passed

\* C24: report exits with code 0 exactly when the ScoreResult is deploy-ready
\* (score >= deployThreshold), and with 1 otherwise, in the JSON mode and in
\* the console mode alike.
C24_ReportExitsByDeployReady ==
    pc = "done" => (exitCode = 0 <=> TruthyField(scoreResult, "deployReady"))

\* C25: every report invocation that runs to its exit has written exactly
\* one snapshot, whatever the output mode and whether or not any check is
\* enabled.
C25_ReportWritesOneSnapshot ==
    pc = "done" => saved = 1

\* C26: a snapshot written by saveReport is never overwritten or modified
\* by a later or concurrent invocation: any two invocations of saveReport
\* into one directory write two distinct files.
C26_SnapshotsAreDistinctFiles ==
    pc = "save" =>
        /\ Cardinality(vOutput) = saved
        /\ \A p \in 1..MaxInvocations :
               vInput.procs[p].stage = "saved" =>
                   \E f \in vOutput : f.content = vInput.procs[p].report

\* the valid report files of a directory, in ascending order of their names
ValidFiles(input) ==
    SelectSeq(SortNames({f.name : f \in {g \in input.dir : IsReportFile(g.name)}}),
              LAMBDA name : IsValidReport(ContentOf(input.dir, name)))

\* C27: loadReports(dir, limit) with limit >= 1 returns, in ascending order
\* of the file names, the min(limit, v) most recent valid reports of the
\* directory, v being the number of report files that parse and carry a
\* numeric score and a timestamp; files that are malformed or lack a field
\* are skipped without reducing the number of valid reports returned.
C27_MostRecentValidReports ==
    (pc = "loaded" /\ vInput.exists /\ vInput.limit >= 1) =>
        LET valid == ValidFiles(vInput)
            n == IF vInput.limit < Len(valid) THEN vInput.limit ELSE Len(valid)
        IN  /\ Len(vOutput) = n
            /\ \A i \in 1..n : vOutput[i].file = valid[Len(valid) - n + i]

\* C28: the per-line match loop of the content and secret scans terminates
\* for every line and every compiled pattern, patterns that match the empty
\* string included: each iteration either advances the cursor of the
\* regular expression or leaves the loop, and no zero-length match is
\* recorded as a violation.
C28_MatchLoopTerminates ==
    /\ <>(pc # "exec")
    /\ [][pc' = "exec" => vOutput'.lastIndex > vOutput.lastIndex]_vars
    /\ [](\A k \in 1..Len(vOutput.errors) : vOutput.errors[k].length > 0)

\* the loop left on a line where the pattern matched a text, recorded it,
\* then matched the empty string twice
C28_Witness ==
    /\ pc = "left"
    /\ vInput.source = "a*"
    /\ vInput.line = <<"a", "a", "b">>
    /\ vInput.allowlisted = "no"
    /\ Len(vOutput.errors) = 1
    /\ vOutput.lastIndex = 4

\* every node of a tree, behind symbolic links too: its path, name and type
\* and the [name, type] of each entry the path leads through
RECURSIVE Nodes(_, _, _)
Nodes(entries, dir, through) ==
    UNION {LET e == entries[i]
           IN  {[path |-> Append(dir, e.name), name |-> e.name, type |-> e.type,
                 through |-> through]}
               \cup Nodes(e.children, Append(dir, e.name),
                          through \cup {[name |-> e.name, type |-> e.type]})
           : i \in 1..Len(entries)}

\* a directory the walk enters: no symbolic link, skip directory or
\* dot-directory on the way to it
InScannedDirectory(node, skipDirs) ==
    \A a \in node.through :
        a.type = "dir" /\ a.name \notin skipDirs /\ a.name[1] # "."

\* C29: for every project tree, the secret scan never scans a file that is a
\* symbolic link or that is reachable only through a symbolic link, a
\* configured skip directory or a directory whose name starts with ".", and
\* never scans a dependency lock file; a regular file named .env (or another
\* known sensitive dotfile) in a scanned directory is always scanned.
C29_WalkScansTheRightFiles ==
    pc = "walked" =>
        LET scanned == {vOutput[i] : i \in 1..Len(vOutput)}
        IN  \A node \in Nodes(vInput.entries, <<>>, {}) :
                /\ node.path \in scanned =>
                       /\ node.type = "file"
                       /\ InScannedDirectory(node, vInput.skipDirs)
                       /\ node.name \notin LOCK_FILES
                /\ (node.type = "file" /\ node.name \in DEFAULT_DOTFILES
                    /\ InScannedDirectory(node, vInput.skipDirs))
                       => node.path \in scanned

\* C30: for every key k of config.checks, the Result that runner.run
\* returns at k's position has key equal to k, so that config.checks[result.key]
\* is the entry the Result was produced from.
C30_ResultKeyIsConfigKey ==
    \A i \in 1..Len(results) :
        i <= Len(config.checks) /\ results[i].key = config.checks[i].name

====
